---- MODULE Spec2Model ----
(***************************************************************************)
(* Model of great_expectations/execution_engine/pandas_execution_engine.py *)
(*                                                                         *)
(* State: the loaded batch data (dataframe), the persisted expectation     *)
(* suite (_expectation_suite.expectations), the _active_validation flag    *)
(* and a record of the last expectation call (its arguments, the path it   *)
(* took, the locals it computed and what it returned or raised).  ncalls   *)
(* counts the calls made and evaluated is the set of (public kind, column) *)
(* pairs a type-routed call has evaluated and persisted.                   *)
(* result_format_dict is a result_format dictionary the caller holds and   *)
(* may pass to a call, which receives the object itself.                   *)
(* threads holds, for each thread evaluating a type-routed expectation,    *)
(* the statement group it has reached and its local new_expectations.      *)
(*                                                                         *)
(* Optional Python values are encoded as sequences of length at most one:  *)
(* None is << >> and a present value x is << x >>.                         *)
(***************************************************************************)
EXTENDS Integers, Sequences, FiniteSets, TLC

VARIABLES dataframe, suite, active_validation, result_format_dict, ncalls, evaluated, res, threads

vars == <<dataframe, suite, active_validation, result_format_dict, ncalls, evaluated, res, threads>>

(***************************************************************************)
(* Bounds of the model.                                                    *)
(***************************************************************************)
\* longest column of a generated data frame
MaxRows == 2
\* number of type-routed calls made against one suite
MaxCalls == 2

(***************************************************************************)
(* Python values.                                                          *)
(***************************************************************************)
None == << >>
Some(x) == << x >>
IsNone(x) == x = << >>
Val(x) == x[1]

\* Python truthiness of an optional string ("" and None are falsy)
Truthy(x) == ~IsNone(x) /\ Val(x) # ""

\* a cell value: its Python type and a payload; Null is None/NaN
Int1 == [ty |-> "int", v |-> 1]
Int2 == [ty |-> "int", v |-> 2]
Int3 == [ty |-> "int", v |-> 3]
Int4 == [ty |-> "int", v |-> 4]
Str1 == [ty |-> "str", v |-> 1]
Null == [ty |-> "null", v |-> 0]

Values == {Int1, Int2, Int3, Int4, Str1, Null}

\* string cells with a text the parsers tell apart: Str1 is 'abc'
JsonOk == [ty |-> "str", v |-> 2]
JsonOther == [ty |-> "str", v |-> 3]
DateIso == [ty |-> "str", v |-> 4]
DateUs == [ty |-> "str", v |-> 5]

\* str(x): a string cell is itself, an integer n becomes the string of its
\* digits (payload 10 + n)
astype_str(x) == IF x.ty = "int" THEN [ty |-> "str", v |-> 10 + x.v] ELSE x

\* the text of a string cell, and str(x) of an integer cell
text(x) ==
    CASE x = JsonOk -> "{\"a\": 1}"
      [] x = JsonOther -> "{\"a\": \"x\"}"
      [] x = DateIso -> "2020-01-31"
      [] x = DateUs -> "01/31/2020"
      [] x = Str1 -> "abc"
      [] astype_str(x).v = 11 -> "1"
      [] astype_str(x).v = 12 -> "2"
      [] astype_str(x).v = 13 -> "3"
      [] astype_str(x).v = 14 -> "4"
      [] OTHER -> "nan"

\* the place of a text in the order of str comparison (by code point)
text_rank(t) ==
    CASE t = "01/31/2020" -> 1
      [] t = "1" -> 2
      [] t = "2" -> 3
      [] t = "2020-01-31" -> 4
      [] t = "3" -> 5
      [] t = "4" -> 6
      [] t = "abc" -> 7
      [] t = "nan" -> 8
      [] t = "{\"a\": \"x\"}" -> 9
      [] OTHER -> 10

\* len(str(x))
str_len(x) ==
    CASE x \in {JsonOk} -> 8
      [] x \in {JsonOther, DateIso, DateUs} -> 10
      [] x \in {Str1, Null} -> 3
      [] OTHER -> 1

isnull(x) == x.ty = "null"

Columns == {"A", "B"}

\* sequence helpers
Range(s) == {s[i] : i \in 1..Len(s)}

RECURSIVE SelectIdx(_, _, _)
\* the subsequence of s at the positions i (in order) where keep[i]
SelectIdx(s, keep, i) ==
    IF i > Len(s) THEN << >>
    ELSE IF keep[i] THEN <<s[i]>> \o SelectIdx(s, keep, i + 1)
         ELSE SelectIdx(s, keep, i + 1)

Mask(s, keep) == SelectIdx(s, keep, 1)

(***************************************************************************)
(* The batch data: a pandas DataFrame with columns A and B, as a sequence  *)
(* of rows carrying their index label.  A freshly loaded frame has the     *)
(* default index 0..N-1 (load_batch reads it with a pandas reader).        *)
(***************************************************************************)
MkFrame(valsA, valsB) ==
    [i \in 1..Len(valsA) |-> [index |-> i - 1, A |-> valsA[i], B |-> valsB[i]]]

\* the column as a Series: the sequence of [index, value] cells
Series(df, column) ==
    [i \in 1..Len(df) |-> [index |-> df[i].index, value |-> df[i][column]]]

SeriesValues(ser) == [i \in 1..Len(ser) |-> ser[i].value]

SeriesIndex(ser) == [i \in 1..Len(ser) |-> ser[i].index]

\* the dtype pandas gives the column: int64 for integers without nulls,
\* float64 for integers with NaN, object for anything else (and for no rows)
dtype(df, column) ==
    LET vals == {df[i][column] : i \in 1..Len(df)}
    IN  IF vals = {} THEN "object"
        ELSE IF \A x \in vals : x.ty = "int" THEN "int64"
        ELSE IF \A x \in vals : x.ty \in {"int", "null"} THEN "float64"
        ELSE "object"

\* dtype.type, the numpy scalar type of a dtype
dtype_type(dt) ==
    CASE dt = "int64" -> "np.int64"
      [] dt = "float64" -> "np.float64"
      [] OTHER -> "np.object_"

\* dtype.type.__name__
dtype_type_name(dt) ==
    CASE dt = "int64" -> "int64"
      [] dt = "float64" -> "float64"
      [] OTHER -> "object_"

\* the row conditions the calls draw from ("" is a falsy row_condition)
RowConditions == {"", "A == 1"}

\* whether a row satisfies a query expression (NaN == NaN is false)
RowSatisfies(row, row_condition) ==
    CASE row_condition = "A == 1" -> row.A = Int1
      [] row_condition = "A == A" -> ~isnull(row.A)
      [] OTHER -> TRUE

\* DataFrame.query: the satisfying rows, each keeping its index label
query(df, row_condition) ==
    Mask(df, [i \in 1..Len(df) |-> RowSatisfies(df[i], row_condition)])

\* DataFrame.reset_index(drop=True): relabel the rows 0..N-1
reset_index(df) ==
    [i \in 1..Len(df) |-> [df[i] EXCEPT !.index = i - 1]]

ConditionParsers == {None, Some("python"), Some("pandas"), Some("spark")}

(***************************************************************************)
(* Resolution of a requested type name to concrete comparable types.       *)
(***************************************************************************)
\* the type names the calls draw from
TypeNames == {"object", "O", "int64", "int", "CategoricalDtype", "bogus"}

\* np.dtype(type_).type, or None where np.dtype raises TypeError
np_dtype_type(type_) ==
    CASE type_ \in {"object", "O", "object_"} -> Some("np.object_")
      [] type_ \in {"int64", "int"} -> Some("np.int64")
      [] type_ = "str" -> Some("np.str_")
      [] type_ = "float" -> Some("np.float64")
      [] OTHER -> None

\* getattr(pd, type_) where it exists and is a type
pd_type(type_) ==
    IF type_ = "CategoricalDtype" THEN Some("pd.CategoricalDtype") ELSE None

\* getattr(pd.core.dtypes.dtypes, type_) where it exists and is a type
pd_dtypes_type(type_) ==
    IF type_ = "CategoricalDtype" THEN Some("pd.CategoricalDtype") ELSE None

\* the tuple of native Python types of a name, or None
_native_type_type_map(type_) ==
    CASE type_ = "int" -> Some(<<"int">>)
      [] type_ = "float" -> Some(<<"float">>)
      [] type_ = "str" -> Some(<<"str">>)
      [] OTHER -> None

\* the comp_types one requested name contributes: the numpy kind if there
\* is one, else the pandas types, and then the native fallback
comp_types_of(type_) ==
    LET np_pd == IF ~IsNone(np_dtype_type(type_)) THEN np_dtype_type(type_)
                 ELSE pd_type(type_) \o pd_dtypes_type(type_)
        native_type == _native_type_type_map(type_)
    IN  IF ~IsNone(native_type) THEN np_pd \o Val(native_type) ELSE np_pd

RECURSIVE comp_types_of_list(_)
\* the loop over type_list, appending each name's types in order
comp_types_of_list(type_list) ==
    IF type_list = << >> THEN << >>
    ELSE comp_types_of(Head(type_list)) \o comp_types_of_list(Tail(type_list))

\* isinstance(x, t) for a cell value and a concrete type
isinstance(x, t) ==
    \/ x.ty = "int" /\ t = "int"
    \/ x.ty = "str" /\ t = "str"

\* isinstance(x, tuple(comp_types))
isinstance_any(x, comp_types) ==
    \E i \in 1..Len(comp_types) : isinstance(x, comp_types[i])

(***************************************************************************)
(* What one expectation function call produces: how it ended (outcome is   *)
(* "ok" or the exception raised), the object it returned (ret, with the    *)
(* set of keys present in it) and the locals the decorator computed.       *)
(***************************************************************************)
EmptyRet ==
    [keys |-> {}, success |-> FALSE, observed_value |-> "",
     element_count |-> 0, missing_count |-> 0, missing_percent |-> None,
     unexpected_count |-> 0, unexpected_percent |-> None,
     unexpected_percent_nonmissing |-> None,
     partial_unexpected_list |-> << >>, partial_unexpected_index_list |-> << >>,
     unexpected_list |-> << >>, unexpected_index_list |-> << >>,
     metric |-> << >>]

NoLocals ==
    [filtered |-> FALSE, predicate_called |-> FALSE, data |-> << >>,
     nonnull_values |-> << >>, element_count |-> 0, nonnull_count |-> 0,
     success_count |-> 0, unexpected_list |-> << >>,
     unexpected_index_list |-> << >>, percent_success |-> None,
     comp_types |-> << >>, compared |-> FALSE,
     result_format |-> [result_format |-> "", partial_unexpected_count |-> 0]]

Raise(exception, message, locals) ==
    [outcome |-> exception, message |-> message, ret |-> EmptyRet, locals |-> locals]

Return(ret, locals) ==
    [outcome |-> "ok", message |-> "", ret |-> ret, locals |-> locals]

(***************************************************************************)
(* Result formatting and the success threshold (DataAsset helpers).        *)
(***************************************************************************)
\* the sample bound parse_result_format gives a result format without one
DefaultPartialUnexpectedCount == 20

\* default_expectation_args["result_format"]
DefaultResultFormat == "SUMMARY"

\* parse_result_format: a level name becomes a record with the default bound;
\* a dictionary keeps the bound it names (partial_unexpected_count is None
\* for a level name and for a dictionary without the key)
parse_result_format(result_format, partial_unexpected_count) ==
    [result_format |-> result_format,
     partial_unexpected_count |->
         IF IsNone(partial_unexpected_count) THEN DefaultPartialUnexpectedCount
         ELSE Val(partial_unexpected_count)]

\* a ratio num/den as a pair, None when the denominator is 0
Ratio(num, den) == IF den > 0 THEN Some(<<num, den>>) ELSE None

\* mostly is a percentage 0..100; success iff success_count/nonnull_count >= mostly
_calc_map_expectation_success(success_count, nonnull_count, mostly) ==
    IF nonnull_count > 0
    THEN [success |-> IF ~IsNone(mostly)
                      THEN success_count * 100 >= Val(mostly) * nonnull_count
                      ELSE nonnull_count - success_count = 0,
          percent_success |-> Ratio(success_count, nonnull_count)]
    ELSE [success |-> TRUE, percent_success |-> None]

SubSeqTo(s, n) == SubSeq(s, 1, IF Len(s) < n THEN Len(s) ELSE n)

BasicKeys ==
    {"success", "result", "element_count", "missing_count", "missing_percent",
     "unexpected_count", "unexpected_percent", "unexpected_percent_nonmissing"}

SummaryKeys ==
    BasicKeys \cup {"partial_unexpected_list", "partial_unexpected_index_list",
                    "partial_unexpected_counts"}

CompleteKeys == SummaryKeys \cup {"unexpected_list", "unexpected_index_list"}

_format_map_output(result_format, success, element_count, nonnull_count, unexpected_count, unexpected_list, unexpected_index_list) ==
    LET level == result_format.result_format
        bound == result_format.partial_unexpected_count
        missing_count == element_count - nonnull_count
        basic ==
            [EmptyRet EXCEPT
                !.keys = BasicKeys,
                !.success = success,
                !.element_count = element_count,
                !.missing_count = missing_count,
                !.missing_percent = Ratio(missing_count, element_count),
                !.unexpected_count = unexpected_count,
                !.unexpected_percent =
                    IF nonnull_count > 0 THEN Ratio(unexpected_count, element_count)
                    ELSE None,
                !.unexpected_percent_nonmissing = Ratio(unexpected_count, nonnull_count)]
        \* the breakdown of the sample is left out where the bound is 0
        no_counts == IF bound > 0 THEN {} ELSE {"partial_unexpected_counts"}
        summary ==
            [basic EXCEPT
                !.keys = SummaryKeys \ no_counts,
                !.partial_unexpected_list = SubSeqTo(unexpected_list, bound),
                !.partial_unexpected_index_list = SubSeqTo(unexpected_index_list, bound)]
        complete ==
            [summary EXCEPT
                !.keys = CompleteKeys \ no_counts,
                !.unexpected_list = unexpected_list,
                !.unexpected_index_list = unexpected_index_list]
    IN  CASE level = "BOOLEAN_ONLY" ->
                [EmptyRet EXCEPT !.keys = {"success"}, !.success = success]
          [] level = "BASIC" -> basic
          [] level = "SUMMARY" -> summary
          [] OTHER -> complete

(***************************************************************************)
(* The column-map predicates.  Each takes the values handed over by the    *)
(* decorator and gives one boolean per value, or raises.                   *)
(***************************************************************************)
FuncRaise(message) ==
    [raised |-> TRUE, exception |-> "ValueError", message |-> message, bools |-> << >>]

\* the function raises an exception of another class
FuncRaiseAs(exception, message) ==
    [raised |-> TRUE, exception |-> exception, message |-> message, bools |-> << >>]

FuncReturn(bools) ==
    [raised |-> FALSE, exception |-> "", message |-> "", bools |-> bools]

\* ~column.duplicated(): the first occurrence of a value is not marked
expect_column_values_to_be_unique_keep_first(column) ==
    FuncReturn([i \in 1..Len(column) |->
                   ~\E j \in 1..(i - 1) : column[j] = column[i]])

\* ~column.duplicated(keep=False)
expect_column_values_to_be_unique(column) ==
    FuncReturn([i \in 1..Len(column) |->
                   ~\E j \in 1..Len(column) : j # i /\ column[j] = column[i]])

\* ~column.isnull()
expect_column_values_to_not_be_null(column) ==
    FuncReturn([i \in 1..Len(column) |-> ~isnull(column[i])])

\* column.isnull()
expect_column_values_to_be_null(column) ==
    FuncReturn([i \in 1..Len(column) |-> isnull(column[i])])

_expect_column_values_to_be_of_type__map(column, type_) ==
    LET comp_types == comp_types_of(type_)
    IN  IF Len(comp_types) < 1
        THEN FuncRaise("Unrecognized numpy/python type")
        ELSE FuncReturn([i \in 1..Len(column) |-> isinstance_any(column[i], comp_types)])

_expect_column_values_to_be_in_type_list__map(column, type_list) ==
    LET comp_types == comp_types_of_list(type_list)
    IN  IF Len(comp_types) < 1
        THEN FuncRaise("No recognized numpy/python type in list")
        ELSE FuncReturn([i \in 1..Len(column) |-> isinstance_any(column[i], comp_types)])

(***************************************************************************)
(* The per-element predicates: column.map(f) calls f on the values in      *)
(* order and the first exception f raises ends the call.                   *)
(***************************************************************************)
\* Series.map over what f did on each value: "True" or "False" where it
\* returned, the name of the exception where it raised
series_map(outs, message) ==
    LET raising == {i \in 1..Len(outs) : outs[i] \notin {"True", "False"}}
        first == CHOOSE i \in raising : \A j \in raising : i <= j
    IN  IF raising # {} THEN FuncRaiseAs(outs[first], message)
        ELSE FuncReturn([i \in 1..Len(outs) |-> outs[i] = "True"])

\* json.loads(val): the exception raised ("" for none) and the object; an
\* object is known by the type of its member a
json_loads(val) ==
    IF val.ty # "str" THEN [exception |-> "TypeError", a |-> ""]
    ELSE IF val = JsonOk THEN [exception |-> "", a |-> "integer"]
    ELSE IF val = JsonOther THEN [exception |-> "", a |-> "string"]
    ELSE [exception |-> "JSONDecodeError", a |-> ""]

\* jsonschema.validate(val_json, json_schema): the exception raised; the
\* schema is checked before the instance.  The schemas: member a is an
\* integer, member a is a string, and one naming a type that does not exist
jsonschema_validate(val_json, json_schema) ==
    IF json_schema = "type_bogus" THEN "SchemaError"
    ELSE IF json_schema = "a_integer" /\ val_json.a = "integer" THEN ""
    ELSE IF json_schema = "a_string" /\ val_json.a = "string" THEN ""
    ELSE "ValidationError"

\* is_json: any exception of json.loads is swallowed
is_json(val) == IF json_loads(val).exception = "" THEN "True" ELSE "False"

expect_column_values_to_be_json_parseable(column) ==
    series_map([i \in 1..Len(column) |-> is_json(column[i])], "")

\* matches_json_schema with every failure of the schema check swallowed
matches_json_schema_swallowing(val, json_schema) ==
    LET val_json == json_loads(val)
    IN  IF val_json.exception # "" THEN val_json.exception
        ELSE IF jsonschema_validate(val_json, json_schema) = "" THEN "True"
        ELSE "False"

\* matches_json_schema: only ValidationError gives False, anything else
\* json.loads or jsonschema.validate raises is raised again
matches_json_schema(val, json_schema) ==
    LET val_json == json_loads(val)
        validated == jsonschema_validate(val_json, json_schema)
    IN  IF val_json.exception # "" THEN val_json.exception
        ELSE IF validated = "ValidationError" THEN "False"
        ELSE IF validated # "" THEN validated
        ELSE "True"

expect_column_values_to_match_json_schema(column, json_schema) ==
    series_map([i \in 1..Len(column) |-> matches_json_schema(column[i], json_schema)], "")

\* is_parseable: a value that is not a str raises TypeError inside the try,
\* which catches ValueError and OverflowError only; parse(val) raises
\* ValueError on a string that is no date
is_parseable(val) ==
    IF val.ty # "str" THEN "TypeError"
    ELSE IF val \in {DateIso, DateUs} THEN "True"
    ELSE "False"

expect_column_values_to_be_dateutil_parseable(column) ==
    series_map([i \in 1..Len(column) |-> is_parseable(column[i])],
               "must be of type string")

\* datetime.datetime.strptime(val, strftime_format): the exception raised;
\* %D formats a date but cannot parse one
strptime(val, strftime_format) ==
    IF val.ty # "str" THEN "TypeError"
    ELSE IF strftime_format = "%D" THEN "ValueError"
    ELSE IF val = DateIso /\ strftime_format = "%Y-%m-%d" THEN ""
    ELSE IF val = DateUs /\ strftime_format = "%m/%d/%Y" THEN ""
    ELSE "ValueError"

\* is_parseable_by_format: ValueError gives False, TypeError is raised
is_parseable_by_format(val, strftime_format) ==
    LET parsed == strptime(val, strftime_format)
    IN  IF parsed = "TypeError" THEN "TypeError"
        ELSE IF parsed = "" THEN "True"
        ELSE "False"

\* the format is tried on the current time first
expect_column_values_to_match_strftime_format(column, strftime_format) ==
    IF strftime_format = "%D"
    THEN FuncRaise("Unable to use provided strftime_format. ")
    ELSE series_map([i \in 1..Len(column) |->
                        is_parseable_by_format(column[i], strftime_format)],
                    "must be of type string")

\* the bounds the range checks draw from
BoundArgs == {None, Some(1), Some(2)}

\* is_between for integer bounds: a str value against them raises TypeError,
\* from the comparison (caught when allow_cross_type_comparisons) or from
\* the type test
is_between(val, min_value, max_value, strict_min, strict_max, allow_cross_type_comparisons) ==
    LET above == IF strict_min THEN Val(min_value) < val.v ELSE Val(min_value) <= val.v
        below == IF strict_max THEN val.v < Val(max_value) ELSE val.v <= Val(max_value)
    IN  IF val.ty = "str"
        THEN IF allow_cross_type_comparisons THEN "False" ELSE "TypeError"
        ELSE IF (IsNone(min_value) \/ above) /\ (IsNone(max_value) \/ below)
        THEN "True" ELSE "False"

\* expect_column_values_to_be_between without the test of min > max
expect_column_values_to_be_between_unordered(column, min_value, max_value, strict_min, strict_max, allow_cross_type_comparisons) ==
    IF IsNone(min_value) /\ IsNone(max_value)
    THEN FuncRaise("min_value and max_value cannot both be None")
    ELSE series_map([i \in 1..Len(column) |->
                        is_between(column[i], min_value, max_value, strict_min,
                                   strict_max, allow_cross_type_comparisons)],
                    "must either be None or of the same type")

\* expect_column_values_to_be_between called without
\* parse_strings_as_datetimes, on integer bounds
expect_column_values_to_be_between(column, min_value, max_value, strict_min, strict_max, allow_cross_type_comparisons) ==
    IF IsNone(min_value) /\ IsNone(max_value)
    THEN FuncRaise("min_value and max_value cannot both be None")
    ELSE IF ~IsNone(min_value) /\ ~IsNone(max_value) /\ Val(min_value) > Val(max_value)
    THEN FuncRaise("min_value cannot be greater than max_value")
    ELSE series_map([i \in 1..Len(column) |->
                        is_between(column[i], min_value, max_value, strict_min,
                                   strict_max, allow_cross_type_comparisons)],
                    "must either be None or of the same type")

\* column.astype(str).str.len() against the bounds, both inclusive; integer
\* bounds pass the integer test
expect_column_value_lengths_to_be_between(column, min_value, max_value) ==
    IF IsNone(min_value) /\ IsNone(max_value)
    THEN FuncRaise("min_value and max_value cannot both be None")
    ELSE FuncReturn([i \in 1..Len(column) |->
                        /\ IsNone(min_value) \/ Val(min_value) <= str_len(column[i])
                        /\ IsNone(max_value) \/ str_len(column[i]) <= Val(max_value)])

NullPresenceChecks ==
    {"expect_column_values_to_not_be_null", "expect_column_values_to_be_null"}

\* func(self, nonnull_values, *args, **kwargs) for the decorated function func
column_map_func(func, column, args) ==
    CASE func = "expect_column_values_to_be_unique" ->
            expect_column_values_to_be_unique(column)
      [] func = "expect_column_values_to_not_be_null" ->
            expect_column_values_to_not_be_null(column)
      [] func = "expect_column_values_to_be_null" ->
            expect_column_values_to_be_null(column)
      [] func = "_expect_column_values_to_be_of_type__map" ->
            _expect_column_values_to_be_of_type__map(column, Val(args.type_))
      [] func = "expect_column_values_to_be_json_parseable" ->
            expect_column_values_to_be_json_parseable(column)
      [] func = "expect_column_values_to_match_json_schema" ->
            expect_column_values_to_match_json_schema(column, args.json_schema)
      [] func = "expect_column_values_to_be_dateutil_parseable" ->
            expect_column_values_to_be_dateutil_parseable(column)
      [] func = "expect_column_values_to_match_strftime_format" ->
            expect_column_values_to_match_strftime_format(column, args.strftime_format)
      [] func = "expect_column_values_to_be_between" ->
            expect_column_values_to_be_between(column, args.min_value, args.max_value,
                                               args.strict_min, args.strict_max,
                                               args.allow_cross_type_comparisons)
      [] func = "expect_column_value_lengths_to_be_between" ->
            expect_column_value_lengths_to_be_between(column, args.min_value,
                                                      args.max_value)
      [] OTHER ->
            _expect_column_values_to_be_in_type_list__map(column, Val(args.type_list))

\* the arguments an expectation takes besides its columns
NoArgs ==
    [type_ |-> None, type_list |-> None, json_schema |-> "", strftime_format |-> "",
     min_value |-> None, max_value |-> None, strict_min |-> FALSE,
     strict_max |-> FALSE, allow_cross_type_comparisons |-> FALSE,
     sort |-> "", collate |-> None]

\* the fix deleting unexpected_percent_nonmissing only
NullPresenceDeleted_nonmissing_only == {"unexpected_percent_nonmissing"}

\* the keys the null-presence fix deletes from return_obj["result"]
NullPresenceDeleted ==
    {"unexpected_percent_nonmissing", "missing_count", "missing_percent"}

\* the null-presence fix on a formatted object that has a "result": the three
\* keys go; then the breakdown and the sample go, in this order, and a
\* KeyError on either ends the attempt
null_presence_fix(return_obj) ==
    LET deleted == [return_obj EXCEPT !.keys = @ \ NullPresenceDeleted]
    IN  IF "partial_unexpected_counts" \notin deleted.keys THEN deleted
        ELSE [deleted EXCEPT
                 !.keys = @ \ {"partial_unexpected_counts", "partial_unexpected_list"},
                 !.partial_unexpected_list = << >>]

\* boolean_mapped_null_values with no special case for the null-presence checks
column_map_null_values_no_special_case(func, series) ==
    [i \in 1..Len(series) |-> isnull(series[i].value)]

\* boolean_mapped_null_values: the rows left out of the evaluation; none for
\* the two null-presence checks, the null values for every other function
column_map_null_values(func, series) ==
    [i \in 1..Len(series) |->
        IF func \in NullPresenceChecks THEN FALSE ELSE isnull(series[i].value)]

\* result_format["partial_unexpected_count"] = 0 for the two null-presence
\* checks: the parsed result_format object as the wrapper leaves it
column_map_result_format(func, parsed) ==
    IF func \in NullPresenceChecks
    THEN [parsed EXCEPT !.partial_unexpected_count = 0]
    ELSE parsed

\* the unexpected values cut to the first one before they are counted
column_map_unexpected_first_only(nonnull_values, boolean_mapped_success_values) ==
    SubSeqTo(Mask(nonnull_values,
                  [i \in 1..Len(nonnull_values) |-> ~boolean_mapped_success_values[i]]), 1)

\* nonnull_values[boolean_mapped_success_values == False]
column_map_unexpected(nonnull_values, boolean_mapped_success_values) ==
    Mask(nonnull_values,
         [i \in 1..Len(nonnull_values) |-> ~boolean_mapped_success_values[i]])

\* the success computation handed element_count as the evaluated count
column_map_calc_success_of_element_count(success_count, element_count, nonnull_count, mostly) ==
    _calc_map_expectation_success(success_count, element_count, mostly)

\* success, percent_success = self._calc_map_expectation_success(
\*     success_count, nonnull_count, mostly)
column_map_calc_success(success_count, element_count, nonnull_count, mostly) ==
    _calc_map_expectation_success(success_count, nonnull_count, mostly)

(***************************************************************************)
(* MetaPandasExecutionEngine.column_map_expectation: inner_wrapper for the *)
(* decorated function func, evaluated on the batch data df.                *)
(***************************************************************************)
\* the statements of inner_wrapper after parse_result_format: parsed is the
\* parsed result_format object, formatted_with what _format_map_output is
\* handed; the object itself ends as column_map_result_format leaves it
column_map_inner_wrapper(func, df, column, mostly, parsed, formatted_with, row_condition, condition_parser, args) ==
    LET filtered == Truthy(row_condition)
        bad_parser == filtered /\ condition_parser \notin {Some("python"), Some("pandas")}
        data == IF filtered THEN reset_index(query(df, Val(row_condition))) ELSE df
        series == Series(data, column)
        null_presence == func \in NullPresenceChecks
        boolean_mapped_null_values == column_map_null_values(func, series)
        result_format == column_map_result_format(func, parsed)
        element_count == Len(series)
        keep == [i \in 1..Len(series) |-> ~boolean_mapped_null_values[i]]
        nonnull_values == Mask(series, keep)
        nonnull_count == Cardinality({i \in 1..Len(series) : keep[i]})
        called == column_map_func(func, SeriesValues(nonnull_values), args)
        boolean_mapped_success_values == called.bools
        success_count ==
            Cardinality({i \in 1..Len(boolean_mapped_success_values) :
                            boolean_mapped_success_values[i]})
        unexpected == column_map_unexpected(nonnull_values, boolean_mapped_success_values)
        unexpected_list == SeriesValues(unexpected)
        unexpected_index_list == SeriesIndex(unexpected)
        calc == column_map_calc_success(success_count, element_count, nonnull_count, mostly)
        return_obj ==
            _format_map_output(formatted_with, calc.success, element_count,
                               nonnull_count, Len(unexpected_list),
                               unexpected_list, unexpected_index_list)
        called_locals ==
            [NoLocals EXCEPT
                !.filtered = filtered,
                !.predicate_called = TRUE,
                !.data = data,
                !.nonnull_values = SeriesValues(nonnull_values),
                !.element_count = element_count,
                !.nonnull_count = nonnull_count,
                !.result_format = result_format]
        locals ==
            [called_locals EXCEPT
                !.success_count = success_count,
                !.unexpected_list = unexpected_list,
                !.unexpected_index_list = unexpected_index_list,
                !.percent_success = calc.percent_success]
    IN  IF bad_parser
        THEN Raise("ValueError", "condition_parser is required",
                   [NoLocals EXCEPT !.result_format = parsed])
        ELSE IF called.raised
        THEN Raise(called.exception, called.message, called_locals)
        ELSE IF null_presence /\ "result" \notin return_obj.keys
        THEN Raise("KeyError", "result", locals)
        ELSE IF null_presence
        THEN Return(null_presence_fix(return_obj), locals)
        ELSE Return(return_obj, locals)

\* inner_wrapper with the sample bound of the null-presence checks set to 0
\* only after the result is formatted
column_map_expectation_bound_set_late(func, df, column, mostly, result_format_arg, partial_unexpected_count_arg, row_condition, condition_parser, args) ==
    LET parsed ==
            parse_result_format(IF IsNone(result_format_arg) THEN DefaultResultFormat
                                ELSE Val(result_format_arg),
                                partial_unexpected_count_arg)
    IN  column_map_inner_wrapper(func, df, column, mostly, parsed, parsed,
                                 row_condition, condition_parser, args)

\* inner_wrapper: the result_format is defaulted and parsed, the sample
\* bound of the null-presence checks is set to 0, and the rest follows
column_map_expectation(func, df, column, mostly, result_format_arg, partial_unexpected_count_arg, row_condition, condition_parser, args) ==
    LET parsed ==
            parse_result_format(IF IsNone(result_format_arg) THEN DefaultResultFormat
                                ELSE Val(result_format_arg),
                                partial_unexpected_count_arg)
    IN  column_map_inner_wrapper(func, df, column, mostly, parsed,
                                 column_map_result_format(func, parsed),
                                 row_condition, condition_parser, args)

(***************************************************************************)
(* The aggregate paths of the two type-routed expectations.                *)
(***************************************************************************)
\* the result with the dtype's own name as observed_value
AggregateRet_dtype_name(success, dt) ==
    [EmptyRet EXCEPT !.keys = {"success", "result", "observed_value"},
                     !.success = success,
                     !.observed_value = dt]

\* the object an aggregate path returns
AggregateRet(success, dt) ==
    [EmptyRet EXCEPT !.keys = {"success", "result", "observed_value"},
                     !.success = success,
                     !.observed_value = dtype_type_name(dt)]

\* the aggregate path without the check of mostly
_expect_column_values_to_be_of_type__aggregate_any_mostly(df, column, type_, mostly) ==
    LET dt == dtype(df, column)
        comp_types == comp_types_of(Val(type_))
        compared == [NoLocals EXCEPT !.comp_types = comp_types, !.compared = TRUE]
    IN  IF IsNone(type_)
        THEN Return(AggregateRet(TRUE, dt), NoLocals)
        ELSE Return(AggregateRet(dtype_type(dt) \in Range(comp_types), dt), compared)

_expect_column_values_to_be_of_type__aggregate(df, column, type_, mostly) ==
    LET dt == dtype(df, column)
        comp_types == comp_types_of(Val(type_))
        compared == [NoLocals EXCEPT !.comp_types = comp_types, !.compared = TRUE]
    IN  IF ~IsNone(mostly)
        THEN Raise("ValueError", "cannot support mostly", NoLocals)
        ELSE IF IsNone(type_)
        THEN Return(AggregateRet(TRUE, dt), NoLocals)
        ELSE Return(AggregateRet(dtype_type(dt) \in Range(comp_types), dt), compared)

_expect_column_values_to_be_in_type_list__aggregate(df, column, type_list, mostly) ==
    LET dt == dtype(df, column)
        comp_types == comp_types_of_list(Val(type_list))
        compared == [NoLocals EXCEPT !.comp_types = comp_types, !.compared = TRUE]
    IN  IF ~IsNone(mostly)
        THEN Raise("ValueError", "cannot support mostly", NoLocals)
        ELSE IF IsNone(type_list)
        THEN Return(AggregateRet(TRUE, dt), NoLocals)
        ELSE Return(AggregateRet(dtype_type(dt) \in Range(comp_types), dt), compared)

(***************************************************************************)
(* MetaPandasExecutionEngine.column_pair_map_expectation, for the          *)
(* decorated function expect_column_pair_values_to_be_equal.               *)
(***************************************************************************)
\* the comparison with two nulls taken as equal
expect_column_pair_values_to_be_equal_nulls_equal(column_A, column_B) ==
    FuncReturn([i \in 1..Len(column_A) |-> column_A[i] = column_B[i]])

\* column_A == column_B, elementwise (a null equals nothing)
expect_column_pair_values_to_be_equal(column_A, column_B) ==
    FuncReturn([i \in 1..Len(column_A) |->
                   ~isnull(column_A[i]) /\ ~isnull(column_B[i])
                   /\ column_A[i] = column_B[i]])

\* the ignore_row_if arguments the calls draw from; None is a call that
\* leaves the argument out
PairIgnoreRowIf ==
    {None, Some("both_values_are_missing"), Some("either_value_is_missing"),
     Some("never"), Some("sometimes")}

\* boolean_mapped_null_values with either_value_is_missing read as both
column_pair_null_values_either_as_both(ignore_row_if, series_A, series_B) ==
    [i \in 1..Len(series_A) |->
        CASE ignore_row_if \in {"both_values_are_missing", "either_value_is_missing"} ->
                isnull(series_A[i].value) /\ isnull(series_B[i].value)
          [] OTHER -> FALSE]

\* boolean_mapped_null_values: the rows a known ignore_row_if leaves out
column_pair_null_values(ignore_row_if, series_A, series_B) ==
    [i \in 1..Len(series_A) |->
        CASE ignore_row_if = "both_values_are_missing" ->
                isnull(series_A[i].value) /\ isnull(series_B[i].value)
          [] ignore_row_if = "either_value_is_missing" ->
                isnull(series_A[i].value) \/ isnull(series_B[i].value)
          [] OTHER -> FALSE]

column_pair_map_expectation(df, column_A, column_B, mostly, ignore_row_if_arg, result_format_arg, partial_unexpected_count_arg, row_condition, condition_parser) ==
    LET ignore_row_if == IF IsNone(ignore_row_if_arg) THEN "both_values_are_missing"
                         ELSE Val(ignore_row_if_arg)
        result_format ==
            parse_result_format(IF IsNone(result_format_arg) THEN DefaultResultFormat
                                ELSE Val(result_format_arg),
                                partial_unexpected_count_arg)
        filtered == Truthy(row_condition)
        \* self is rebound to the filtered frame, a plain DataFrame
        data == IF filtered THEN reset_index(query(df, Val(row_condition))) ELSE df
        series_A == Series(data, column_A)
        series_B == Series(data, column_B)
        known == ignore_row_if \in {"both_values_are_missing",
                                    "either_value_is_missing", "never"}
        boolean_mapped_null_values ==
            column_pair_null_values(ignore_row_if, series_A, series_B)
        element_count == Len(series_A)
        keep == [i \in 1..Len(series_A) |-> ~boolean_mapped_null_values[i]]
        nonnull_count == Cardinality({i \in 1..Len(series_A) : keep[i]})
        nonnull_values_A == Mask(series_A, keep)
        nonnull_values_B == Mask(series_B, keep)
        nonnull_values ==
            [i \in 1..Len(nonnull_values_A) |->
                <<nonnull_values_A[i].value, nonnull_values_B[i].value>>]
        called == expect_column_pair_values_to_be_equal(
                      SeriesValues(nonnull_values_A), SeriesValues(nonnull_values_B))
        boolean_mapped_success_values == called.bools
        success_count ==
            Cardinality({i \in 1..Len(boolean_mapped_success_values) :
                            boolean_mapped_success_values[i]})
        failed == [i \in 1..Len(nonnull_values_A) |-> ~boolean_mapped_success_values[i]]
        unexpected_list == Mask(nonnull_values, failed)
        unexpected_index_list == SeriesIndex(Mask(nonnull_values_A, failed))
        calc == _calc_map_expectation_success(success_count, nonnull_count, mostly)
        return_obj ==
            _format_map_output(result_format, calc.success, element_count,
                               nonnull_count, Len(unexpected_list),
                               unexpected_list, unexpected_index_list)
        called_locals ==
            [NoLocals EXCEPT
                !.filtered = filtered,
                !.predicate_called = TRUE,
                !.data = data,
                !.nonnull_values = nonnull_values,
                !.element_count = element_count,
                !.nonnull_count = nonnull_count,
                !.success_count = success_count,
                !.unexpected_list = unexpected_list,
                !.unexpected_index_list = unexpected_index_list]
        locals == [called_locals EXCEPT !.percent_success = calc.percent_success]
    IN  IF ~known
        THEN Raise("ValueError", "Unknown value of ignore_row_if",
                   [NoLocals EXCEPT !.filtered = filtered, !.data = data])
        ELSE IF filtered
        THEN Raise("AttributeError", "_calc_map_expectation_success", called_locals)
        ELSE Return(return_obj, locals)

(***************************************************************************)
(* MetaPandasExecutionEngine.multicolumn_map_expectation, for the          *)
(* decorated function expect_multicolumn_values_to_be_unique.              *)
(***************************************************************************)
\* a row of test_df: the row restricted to the columns of column_list
RowOf(row, column_list) == [c \in Range(column_list) |-> row[c]]

\* column_list.nunique(dropna=False, axis=1) >= len(column_list.columns);
\* column_list is the frame of the rows kept
expect_multicolumn_values_to_be_unique(rows, column_list) ==
    FuncReturn([i \in 1..Len(rows) |->
                   Cardinality({rows[i][c] : c \in Range(column_list)})
                       >= Cardinality(Range(column_list))])

MultiIgnoreRowIf ==
    {None, Some("all_values_are_missing"), Some("any_value_is_missing"),
     Some("never"), Some("sometimes")}

ColumnLists == {<<"A", "B">>, <<"B">>}

multicolumn_map_expectation(df, column_list, mostly, ignore_row_if_arg, result_format_arg, partial_unexpected_count_arg, row_condition, condition_parser) ==
    LET ignore_row_if == IF IsNone(ignore_row_if_arg) THEN "all_values_are_missing"
                         ELSE Val(ignore_row_if_arg)
        result_format ==
            parse_result_format(IF IsNone(result_format_arg) THEN DefaultResultFormat
                                ELSE Val(result_format_arg),
                                partial_unexpected_count_arg)
        filtered == Truthy(row_condition)
        \* self is rebound to the filtered frame, a plain DataFrame
        data == IF filtered THEN reset_index(query(df, Val(row_condition))) ELSE df
        test_df == [i \in 1..Len(data) |->
                       [index |-> data[i].index, value |-> RowOf(data[i], column_list)]]
        known == ignore_row_if \in {"all_values_are_missing",
                                    "any_value_is_missing", "never"}
        boolean_mapped_skip_values ==
            [i \in 1..Len(test_df) |->
                CASE ignore_row_if = "all_values_are_missing" ->
                        \A c \in Range(column_list) : isnull(test_df[i].value[c])
                  [] ignore_row_if = "any_value_is_missing" ->
                        \E c \in Range(column_list) : isnull(test_df[i].value[c])
                  [] OTHER -> FALSE]
        keep == [i \in 1..Len(test_df) |-> ~boolean_mapped_skip_values[i]]
        kept == Mask(test_df, keep)
        called == expect_multicolumn_values_to_be_unique(SeriesValues(kept), column_list)
        boolean_mapped_success_values == called.bools
        success_count ==
            Cardinality({i \in 1..Len(boolean_mapped_success_values) :
                            boolean_mapped_success_values[i]})
        nonnull_count == Cardinality({i \in 1..Len(test_df) : keep[i]})
        element_count == Len(test_df)
        unexpected ==
            Mask(kept, [i \in 1..Len(kept) |-> ~boolean_mapped_success_values[i]])
        unexpected_list == SeriesValues(unexpected)
        unexpected_index_list == SeriesIndex(unexpected)
        calc == _calc_map_expectation_success(success_count, nonnull_count, mostly)
        return_obj ==
            _format_map_output(result_format, calc.success, element_count,
                               nonnull_count, Len(unexpected_list),
                               unexpected_list, unexpected_index_list)
        called_locals ==
            [NoLocals EXCEPT
                !.filtered = filtered,
                !.predicate_called = TRUE,
                !.data = data,
                !.nonnull_values = SeriesValues(kept),
                !.element_count = element_count,
                !.nonnull_count = nonnull_count,
                !.success_count = success_count,
                !.unexpected_list = unexpected_list,
                !.unexpected_index_list = unexpected_index_list]
        locals == [called_locals EXCEPT !.percent_success = calc.percent_success]
    IN  IF ~known
        THEN Raise("ValueError", "Unknown value of ignore_row_if",
                   [NoLocals EXCEPT !.filtered = filtered, !.data = data])
        ELSE IF filtered
        THEN Raise("AttributeError", "_calc_map_expectation_success", called_locals)
        ELSE Return(return_obj, locals)

(***************************************************************************)
(* The expectation suite: an ordered list of expectation configurations.   *)
(* Position p of the model is Python index p - 1.                          *)
(***************************************************************************)
NoKwargs ==
    [column |-> "", type_ |-> None, type_list |-> None, mostly |-> None,
     row_condition |-> None, condition_parser |-> None]

ExpectationConfiguration(expectation_type, kwargs, meta, success_on_last_run) ==
    [expectation_type |-> expectation_type, kwargs |-> kwargs, meta |-> meta,
     success_on_last_run |-> success_on_last_run]

NoEntry == ExpectationConfiguration("", NoKwargs, None, None)

\* the positions, in list order, of the entries with this kind and column
find_expectation_indexes(expectations, expectation_type, column) ==
    LET hit(i) == /\ expectations[i].expectation_type = expectation_type
                  /\ expectations[i].kwargs.column = column
    IN  Mask([i \in 1..Len(expectations) |-> i],
             [i \in 1..Len(expectations) |-> hit(i)])

\* the removal of the first entry, whatever the index
pop_first(expectations, p) == Tail(expectations)

\* list.pop(index)
pop(expectations, p) ==
    [i \in 1..(Len(expectations) - 1) |->
        IF i < p THEN expectations[i] ELSE expectations[i + 1]]

\* the suite's append: an entry of the same kind and column is replaced in
\* place, otherwise the configuration goes to the end of the list
append_expectation(expectations, config) ==
    LET found == find_expectation_indexes(expectations, config.expectation_type,
                                          config.kwargs.column)
    IN  IF Len(found) > 0
        THEN [expectations EXCEPT ![found[1]] = config]
        ELSE Append(expectations, config)

\* the expectation decorator around a routed function: a call that returns
\* outside an active validation stores its configuration, with the success
\* it returned, in the suite
expectation(expectations, active, config, call) ==
    IF call.outcome # "ok" \/ active THEN expectations
    ELSE append_expectation(expectations,
                            [config EXCEPT !.success_on_last_run = Some(call.ret.success)])

InternalNames ==
    {"_expect_column_values_to_be_of_type__aggregate",
     "_expect_column_values_to_be_of_type__map",
     "_expect_column_values_to_be_in_type_list__aggregate",
     "_expect_column_values_to_be_in_type_list__map"}

PublicNames ==
    {"expect_column_values_to_be_of_type", "expect_column_values_to_be_in_type_list"}

\* the routed function a public expectation calls on a path
InternalName(public, path) ==
    IF public = "expect_column_values_to_be_of_type"
    THEN IF path = "aggregate" THEN "_expect_column_values_to_be_of_type__aggregate"
         ELSE "_expect_column_values_to_be_of_type__map"
    ELSE IF path = "aggregate"
         THEN "_expect_column_values_to_be_in_type_list__aggregate"
         ELSE "_expect_column_values_to_be_in_type_list__map"

\* the bookkeeping without the deletion of the existing entry
pop_existing_kept(expectations, public, column) == expectations

\* "if there is an existing expectation of this type, delete it"
pop_existing(expectations, public, column) ==
    LET existing_expectations == find_expectation_indexes(expectations, public, column)
    IN  IF Len(existing_expectations) = 1
        THEN pop(expectations, existing_expectations[1])
        ELSE expectations

\* new_config built without the meta of old_config
new_config_without_meta(old_config, public) ==
    ExpectationConfiguration(public, old_config.kwargs, None,
                             old_config.success_on_last_run)

\* new_config: the configuration found, under the public expectation_type
new_config(old_config, public) ==
    ExpectationConfiguration(public, old_config.kwargs, old_config.meta,
                             old_config.success_on_last_run)

\* "rename the expectation we just added"
rename_new(expectations, p, public) ==
    [expectations EXCEPT ![p] = new_config(expectations[p], public)]

(***************************************************************************)
(* The record of the last call.                                            *)
(***************************************************************************)
NoCallArgs ==
    [column |-> "", column_B |-> "", column_list |-> << >>, type_ |-> None,
     type_list |-> None, mostly |-> None, meta |-> None, result_format |-> None,
     result_format_held |-> FALSE, partial_unexpected_count |-> None,
     row_condition |-> None, condition_parser |-> None, ignore_row_if |-> None,
     kwargs |-> NoArgs]

NoCall ==
    [op |-> "none", args |-> NoCallArgs, path |-> "none", outcome |-> "none",
     message |-> "", ret |-> EmptyRet, locals |-> NoLocals,
     normalized |-> FALSE, recorded |-> NoEntry, new_index |-> 0]

\* the record of a call that went through the function call `call`
Called(op, args, path, call) ==
    [NoCall EXCEPT !.op = op, !.args = args, !.path = path,
                   !.outcome = call.outcome, !.message = call.message,
                   !.ret = call.ret, !.locals = call.locals]

(***************************************************************************)
(* The two type-routed expectations.                                       *)
(***************************************************************************)
\* the path expect_column_values_to_be_of_type takes
route_of_type(df, column, type_) ==
    IF \/ dtype(df, column) # "object"
       \/ IsNone(type_)
       \/ Val(type_) \in {"object", "object_", "O"}
    THEN "aggregate" ELSE "map"

\* the path expect_column_values_to_be_in_type_list takes
route_in_type_list(df, column, type_list) ==
    IF dtype(df, column) # "object" \/ IsNone(type_list)
    THEN "aggregate" ELSE "map"

\* the bookkeeping with the internal entry looked up before the existing
\* public entry is removed
normalize_index_before_removal(expectations, active, public, internal, column) ==
    LET popped == pop_existing(expectations, public, column)
        new_expectations == find_expectation_indexes(expectations, internal, column)
        p == IF Len(new_expectations) = 1 THEN new_expectations[1] ELSE 0
    IN  IF active
        THEN [expectations |-> expectations, asserted |-> TRUE,
              normalized |-> FALSE, recorded |-> NoEntry, new_index |-> 0]
        ELSE IF Len(new_expectations) # 1
        THEN [expectations |-> popped, asserted |-> FALSE,
              normalized |-> FALSE, recorded |-> NoEntry, new_index |-> 0]
        ELSE IF p > Len(popped)
        THEN [expectations |-> popped, asserted |-> TRUE, normalized |-> TRUE,
              recorded |-> NoEntry, new_index |-> p]
        ELSE [expectations |-> rename_new(popped, p, public),
              asserted |-> TRUE, normalized |-> TRUE,
              recorded |-> popped[p], new_index |-> p]

\* the bookkeeping done whether or not a validation is active
normalize_in_validation(expectations, active, public, internal, column) ==
    LET popped == pop_existing(expectations, public, column)
        new_expectations == find_expectation_indexes(popped, internal, column)
    IN  IF Len(new_expectations) # 1
        THEN [expectations |-> popped, asserted |-> FALSE,
              normalized |-> FALSE, recorded |-> NoEntry, new_index |-> 0]
        ELSE [expectations |-> rename_new(popped, new_expectations[1], public),
              asserted |-> TRUE, normalized |-> TRUE,
              recorded |-> popped[new_expectations[1]],
              new_index |-> new_expectations[1]]

\* the bookkeeping after a routed function has returned: nothing in an
\* active validation; otherwise drop the existing public entry and rename
\* the entry just added.  asserted is FALSE where the assert fails.
normalize(expectations, active, public, internal, column) ==
    LET popped == pop_existing(expectations, public, column)
        new_expectations == find_expectation_indexes(popped, internal, column)
    IN  IF active
        THEN [expectations |-> expectations, asserted |-> TRUE,
              normalized |-> FALSE, recorded |-> NoEntry, new_index |-> 0]
        ELSE IF Len(new_expectations) # 1
        THEN [expectations |-> popped, asserted |-> FALSE,
              normalized |-> FALSE, recorded |-> NoEntry, new_index |-> 0]
        ELSE [expectations |-> rename_new(popped, new_expectations[1], public),
              asserted |-> TRUE, normalized |-> TRUE,
              recorded |-> popped[new_expectations[1]],
              new_index |-> new_expectations[1]]

\* a public type-routed expectation that deletes the existing public entry
\* before it calls the routed function
TypeRouted_removal_first(public, args, path, call) ==
    LET internal == InternalName(public, path)
        kwargs == [column |-> args.column, type_ |-> args.type_,
                   type_list |-> args.type_list, mostly |-> args.mostly,
                   row_condition |-> args.row_condition,
                   condition_parser |-> args.condition_parser]
        config == ExpectationConfiguration(internal, kwargs, args.meta, None)
        removed == IF active_validation THEN suite
                   ELSE pop_existing(suite, public, args.column)
        stored == expectation(removed, active_validation, config, call)
        norm == normalize(stored, active_validation, public, internal, args.column)
        called == Called(public, args, path, call)
    IN  /\ ncalls' = ncalls + 1
        /\ UNCHANGED <<dataframe, active_validation, result_format_dict, threads>>
        /\ evaluated' = IF call.outcome = "ok" /\ norm.normalized
                        THEN evaluated \cup {<<public, args.column>>}
                        ELSE evaluated
        /\ IF call.outcome # "ok"
           THEN suite' = removed /\ res' = called
           ELSE /\ suite' = norm.expectations
                /\ res' = IF norm.asserted
                          THEN [called EXCEPT !.normalized = norm.normalized,
                                              !.recorded = norm.recorded,
                                              !.new_index = norm.new_index]
                          ELSE [called EXCEPT !.outcome = "AssertionError",
                                              !.ret = EmptyRet]

\* a public type-routed expectation, once its path and the outcome of the
\* routed function are known
TypeRouted(public, args, path, call) ==
    LET internal == InternalName(public, path)
        kwargs == [column |-> args.column, type_ |-> args.type_,
                   type_list |-> args.type_list, mostly |-> args.mostly,
                   row_condition |-> args.row_condition,
                   condition_parser |-> args.condition_parser]
        config == ExpectationConfiguration(internal, kwargs, args.meta, None)
        stored == expectation(suite, active_validation, config, call)
        norm == normalize(stored, active_validation, public, internal, args.column)
        called == Called(public, args, path, call)
    IN  /\ ncalls' = ncalls + 1
        /\ UNCHANGED <<dataframe, active_validation, result_format_dict, threads>>
        /\ evaluated' = IF call.outcome = "ok" /\ norm.normalized
                        THEN evaluated \cup {<<public, args.column>>}
                        ELSE evaluated
        /\ IF call.outcome # "ok"
           THEN suite' = suite /\ res' = called
           ELSE /\ suite' = norm.expectations
                /\ res' = IF norm.asserted
                          THEN [called EXCEPT !.normalized = norm.normalized,
                                              !.recorded = norm.recorded,
                                              !.new_index = norm.new_index]
                          ELSE [called EXCEPT !.outcome = "AssertionError",
                                              !.ret = EmptyRet]

\* the requested types the calls draw from
TypeArgs == {None} \cup {Some(t) : t \in TypeNames}

TypeLists ==
    {None, Some(<< >>), Some(<<"object">>), Some(<<"bogus">>),
     Some(<<"int", "str">>), Some(<<"bogus", "CategoricalDtype">>)}

\* the keyword arguments the type-routed calls draw from: none; mostly and
\* meta; a row filter with its parser
RoutedOptions ==
    {[mostly |-> None, meta |-> None, row_condition |-> None,
      condition_parser |-> None],
     [mostly |-> Some(50), meta |-> Some("note"), row_condition |-> None,
      condition_parser |-> None],
     [mostly |-> None, meta |-> None, row_condition |-> Some("A == 1"),
      condition_parser |-> Some("pandas")]}

\* the arguments of a call of expect_column_values_to_be_of_type
of_type_args(column, type_, o) ==
    [NoCallArgs EXCEPT
        !.column = column, !.type_ = type_, !.mostly = o.mostly,
        !.meta = o.meta, !.row_condition = o.row_condition,
        !.condition_parser = o.condition_parser]

\* the routed function expect_column_values_to_be_of_type calls
of_type_routed(path, column, type_, o) ==
    IF path = "aggregate"
    THEN _expect_column_values_to_be_of_type__aggregate(
             dataframe, column, type_, o.mostly)
    ELSE column_map_expectation(
             "_expect_column_values_to_be_of_type__map", dataframe,
             column, o.mostly, None, None, o.row_condition,
             o.condition_parser, [NoArgs EXCEPT !.type_ = type_])

\* expect_column_values_to_be_of_type called with these arguments
of_type_call(column, type_, o) ==
    LET path == route_of_type(dataframe, column, type_)
    IN  TypeRouted("expect_column_values_to_be_of_type",
                   of_type_args(column, type_, o), path,
                   of_type_routed(path, column, type_, o))

expect_column_values_to_be_of_type ==
    /\ ncalls < MaxCalls
    /\ \E column \in Columns, type_ \in TypeArgs, o \in RoutedOptions :
          of_type_call(column, type_, o)

\* the arguments of a call of expect_column_values_to_be_in_type_list
in_type_list_args(column, type_list, o) ==
    [NoCallArgs EXCEPT
        !.column = column, !.type_list = type_list,
        !.mostly = o.mostly, !.meta = o.meta,
        !.row_condition = o.row_condition,
        !.condition_parser = o.condition_parser]

\* the routed function expect_column_values_to_be_in_type_list calls
in_type_list_routed(path, column, type_list, o) ==
    IF path = "aggregate"
    THEN _expect_column_values_to_be_in_type_list__aggregate(
             dataframe, column, type_list, o.mostly)
    ELSE column_map_expectation(
             "_expect_column_values_to_be_in_type_list__map",
             dataframe, column, o.mostly, None, None, o.row_condition,
             o.condition_parser,
             [NoArgs EXCEPT !.type_list = type_list])

\* expect_column_values_to_be_in_type_list called with these arguments
in_type_list_call(column, type_list, o) ==
    LET path == route_in_type_list(dataframe, column, type_list)
    IN  TypeRouted("expect_column_values_to_be_in_type_list",
                   in_type_list_args(column, type_list, o), path,
                   in_type_list_routed(path, column, type_list, o))

expect_column_values_to_be_in_type_list ==
    /\ ncalls < MaxCalls
    /\ \E column \in Columns, type_list \in TypeLists, o \in RoutedOptions :
          in_type_list_call(column, type_list, o)

(***************************************************************************)
(* Specification of the type-routed expectations against a suite.          *)
(***************************************************************************)
\* the frame the suite is exercised on: a closed integer column A beside an
\* open column B
RoutedFrames ==
    {MkFrame(<<Int1, Int2>>, <<Int1, Str1>>)}

PublicEntry(public, column, meta) ==
    ExpectationConfiguration(public, [NoKwargs EXCEPT !.column = column], meta,
                             Some(TRUE))

\* suites as persisted earlier: at most one entry per kind and column, no
\* internal name
InitialSuites ==
    {<< >>,
     <<PublicEntry("expect_column_values_to_be_of_type", "B", Some("old")),
       PublicEntry("expect_column_values_to_be_unique", "B", None),
       PublicEntry("expect_column_values_to_be_in_type_list", "A", None)>>}

(***************************************************************************)
(* Threads evaluating a type-routed expectation against the one suite,     *)
(* with no lock: each statement group of the bookkeeping is a step.        *)
(***************************************************************************)
\* number of threads
MaxThreads == 2

Threads == 1..MaxThreads

\* a thread that has not called yet; new_expectations is its local list
NoThread ==
    [pc |-> "idle", public |-> "", column |-> "", internal |-> "",
     outcome |-> "none", new_expectations |-> << >>, overlapped |-> FALSE]

NoThreads == [t \in Threads |-> NoThread]

\* thread t is between its call and its return
Running(t) == threads[t].pc \notin {"idle", "done"}

\* thread t returns or raises
Finished(t, outcome) ==
    [threads[t] EXCEPT !.pc = "done", !.outcome = outcome]

\* thread t calls the public expectation, which calls the routed function
\* under its decorator: the internal entry is recorded when it returns
thread_routed(t, public, args, path, call) ==
    LET internal == InternalName(public, path)
        kwargs == [column |-> args.column, type_ |-> args.type_,
                   type_list |-> args.type_list, mostly |-> args.mostly,
                   row_condition |-> args.row_condition,
                   condition_parser |-> args.condition_parser]
        config == ExpectationConfiguration(internal, kwargs, args.meta, None)
        called == [threads[t] EXCEPT
                      !.public = public, !.column = args.column,
                      !.internal = internal,
                      !.overlapped = \E u \in Threads \ {t} : Running(u)]
    IN  /\ threads[t].pc = "idle"
        /\ \A u \in Threads \ {t} :
               threads[u].pc # "idle" =>
                  threads[u].public = public /\ threads[u].column = args.column
        /\ suite' = expectation(suite, active_validation, config, call)
        /\ threads' = [threads EXCEPT ![t] =
                          IF call.outcome # "ok"
                          THEN [called EXCEPT !.pc = "done", !.outcome = call.outcome]
                          ELSE IF active_validation
                          THEN [called EXCEPT !.pc = "done", !.outcome = "ok"]
                          ELSE [called EXCEPT !.pc = "recorded"]]
        /\ UNCHANGED <<dataframe, active_validation, result_format_dict, ncalls, evaluated, res>>

thread_expect_column_values_to_be_of_type(t) ==
    \E column \in Columns, type_ \in TypeArgs, o \in RoutedOptions :
       LET path == route_of_type(dataframe, column, type_)
       IN  thread_routed(t, "expect_column_values_to_be_of_type",
                         of_type_args(column, type_, o), path,
                         of_type_routed(path, column, type_, o))

thread_expect_column_values_to_be_in_type_list(t) ==
    \E column \in Columns, type_list \in TypeLists, o \in RoutedOptions :
       LET path == route_in_type_list(dataframe, column, type_list)
       IN  thread_routed(t, "expect_column_values_to_be_in_type_list",
                         in_type_list_args(column, type_list, o), path,
                         in_type_list_routed(path, column, type_list, o))

\* "if there is an existing expectation of this type, delete it"
thread_pop_existing(t) ==
    /\ threads[t].pc = "recorded"
    /\ suite' = pop_existing(suite, threads[t].public, threads[t].column)
    /\ threads' = [threads EXCEPT ![t].pc = "popped"]
    /\ UNCHANGED <<dataframe, active_validation, result_format_dict, ncalls, evaluated, res>>

\* new_expectations = find_expectation_indexes(...); assert len(...) == 1
thread_find_new(t) ==
    LET new_expectations == find_expectation_indexes(suite, threads[t].internal,
                                                     threads[t].column)
    IN  /\ threads[t].pc = "popped"
        /\ threads' = [threads EXCEPT ![t] =
                          IF Len(new_expectations) # 1
                          THEN Finished(t, "AssertionError")
                          ELSE [threads[t] EXCEPT
                                   !.pc = "found",
                                   !.new_expectations = new_expectations]]
        /\ UNCHANGED <<dataframe, suite, active_validation, result_format_dict, ncalls, evaluated, res>>

\* the entry at new_expectations[0], as the list is by now, is replaced by
\* new_config; the expectation returns
thread_rename_new(t) ==
    LET p == threads[t].new_expectations[1]
    IN  /\ threads[t].pc = "found"
        /\ IF p > Len(suite)
           THEN /\ suite' = suite
                /\ threads' = [threads EXCEPT ![t] = Finished(t, "IndexError")]
           ELSE /\ suite' = rename_new(suite, p, threads[t].public)
                /\ threads' = [threads EXCEPT ![t] = Finished(t, "ok")]
        /\ UNCHANGED <<dataframe, active_validation, result_format_dict, ncalls, evaluated, res>>

ThreadInit ==
    /\ dataframe \in RoutedFrames
    /\ suite \in InitialSuites
    /\ active_validation \in BOOLEAN
    /\ result_format_dict = [result_format |-> "COMPLETE", partial_unexpected_count |-> None]
    /\ threads = NoThreads
    /\ ncalls = 0
    /\ evaluated = {}
    /\ res = NoCall

ThreadNext ==
    \/ \E t \in Threads : thread_expect_column_values_to_be_of_type(t)
    \/ \E t \in Threads : thread_expect_column_values_to_be_in_type_list(t)
    \/ \E t \in Threads : thread_pop_existing(t)
    \/ \E t \in Threads : thread_find_new(t)
    \/ \E t \in Threads : thread_rename_new(t)

ThreadSpec == ThreadInit /\ [][ThreadNext]_vars

\* a result_format dictionary the caller holds: a level and, where the
\* dictionary has the key, a sample bound
HeldDict(partial_unexpected_count) ==
    [result_format |-> "COMPLETE", partial_unexpected_count |-> partial_unexpected_count]

Init ==
    /\ dataframe \in RoutedFrames
    /\ suite \in InitialSuites
    /\ active_validation \in BOOLEAN
    /\ result_format_dict = HeldDict(None)
    /\ threads = NoThreads
    /\ ncalls = 0
    /\ evaluated = {}
    /\ res = NoCall

Next ==
    \/ expect_column_values_to_be_of_type
    \/ expect_column_values_to_be_in_type_list

Spec == Init /\ [][Next]_vars

(***************************************************************************)
(* The map expectations, evaluated during a validation run (so that no     *)
(* configuration is stored): one action per expectation.  An evaluation    *)
(* reads the batch data and nothing else, so a behaviour makes one.        *)
(***************************************************************************)
MostlyArgs == {None, Some(50)}

ResultFormatArgs == {None, Some("BOOLEAN_ONLY"), Some("BASIC"), Some("COMPLETE")}

\* a call names a level, or a dictionary with a level and a sample bound
PartialUnexpectedCountArgs(result_format) ==
    IF IsNone(result_format) THEN {None} ELSE {None, Some(1)}

RowConditionArgs == {None} \cup {Some(c) : c \in RowConditions}

\* the arguments of a column-map call; held says that result_format is the
\* dictionary the caller holds, and the call then sees what it holds now
column_map_args(column, mostly, result_format, held, partial_unexpected_count, row_condition, condition_parser) ==
    [NoCallArgs EXCEPT
        !.column = column, !.mostly = mostly,
        !.result_format = IF held THEN Some(result_format_dict.result_format)
                          ELSE result_format,
        !.result_format_held = held,
        !.partial_unexpected_count =
            IF held THEN result_format_dict.partial_unexpected_count
            ELSE partial_unexpected_count,
        !.row_condition = row_condition,
        !.condition_parser = condition_parser]

\* the column-map expectation func called with these arguments: the
\* decorator stores its configuration outside an active validation, and a
\* dictionary handed over is left as the wrapper's result_format ends
column_map_call(func, args) ==
    LET call == column_map_expectation(func, dataframe, args.column, args.mostly,
                                       args.result_format,
                                       args.partial_unexpected_count,
                                       args.row_condition, args.condition_parser,
                                       args.kwargs)
        kwargs == [NoKwargs EXCEPT
                      !.column = args.column, !.mostly = args.mostly,
                      !.row_condition = args.row_condition,
                      !.condition_parser = args.condition_parser]
        config == ExpectationConfiguration(func, kwargs, None, None)
    IN  /\ res' = Called(func, args, "map", call)
        /\ suite' = expectation(suite, active_validation, config, call)
        /\ result_format_dict' =
               IF args.result_format_held
               THEN [result_format_dict EXCEPT
                        !.partial_unexpected_count =
                            Some(call.locals.result_format.partial_unexpected_count)]
               ELSE result_format_dict
        /\ ncalls' = ncalls + 1
        /\ UNCHANGED <<dataframe, active_validation, evaluated, threads>>

\* a column-map expectation called with every keyword argument drawn
evaluate_column_map(func) ==
    /\ res.op = "none"
    /\ \E column \in Columns, mostly \in MostlyArgs, result_format \in ResultFormatArgs,
          row_condition \in RowConditionArgs, condition_parser \in ConditionParsers :
          \E partial_unexpected_count \in PartialUnexpectedCountArgs(result_format) :
             column_map_call(func, column_map_args(column, mostly, result_format, FALSE,
                                                   partial_unexpected_count,
                                                   row_condition, condition_parser))

evaluate_expect_column_values_to_be_unique ==
    evaluate_column_map("expect_column_values_to_be_unique")

evaluate_expect_column_values_to_not_be_null ==
    evaluate_column_map("expect_column_values_to_not_be_null")

evaluate_expect_column_values_to_be_null ==
    evaluate_column_map("expect_column_values_to_be_null")

evaluate_expect_column_pair_values_to_be_equal ==
    /\ res.op = "none"
    /\ \E mostly \in MostlyArgs, ignore_row_if \in PairIgnoreRowIf,
          result_format \in ResultFormatArgs, row_condition \in RowConditionArgs,
          condition_parser \in ConditionParsers :
          \E partial_unexpected_count \in PartialUnexpectedCountArgs(result_format) :
          LET args == [NoCallArgs EXCEPT
                          !.column = "A", !.column_B = "B", !.mostly = mostly,
                          !.ignore_row_if = ignore_row_if,
                          !.result_format = result_format,
                          !.partial_unexpected_count = partial_unexpected_count,
                          !.row_condition = row_condition,
                          !.condition_parser = condition_parser]
              call == column_pair_map_expectation(dataframe, "A", "B", mostly,
                                                  ignore_row_if, result_format,
                                                  partial_unexpected_count,
                                                  row_condition, condition_parser)
          IN  /\ res' = Called("expect_column_pair_values_to_be_equal", args, "map", call)
              /\ ncalls' = ncalls + 1
              /\ UNCHANGED <<dataframe, suite, active_validation, result_format_dict, evaluated, threads>>

evaluate_expect_multicolumn_values_to_be_unique ==
    /\ res.op = "none"
    /\ \E column_list \in ColumnLists, mostly \in MostlyArgs,
          ignore_row_if \in MultiIgnoreRowIf, result_format \in ResultFormatArgs,
          row_condition \in RowConditionArgs, condition_parser \in ConditionParsers :
          \E partial_unexpected_count \in PartialUnexpectedCountArgs(result_format) :
          LET args == [NoCallArgs EXCEPT
                          !.column_list = column_list, !.mostly = mostly,
                          !.ignore_row_if = ignore_row_if,
                          !.result_format = result_format,
                          !.partial_unexpected_count = partial_unexpected_count,
                          !.row_condition = row_condition,
                          !.condition_parser = condition_parser]
              call == multicolumn_map_expectation(dataframe, column_list, mostly,
                                                  ignore_row_if, result_format,
                                                  partial_unexpected_count,
                                                  row_condition, condition_parser)
          IN  /\ res' = Called("expect_multicolumn_values_to_be_unique", args, "map", call)
              /\ ncalls' = ncalls + 1
              /\ UNCHANGED <<dataframe, suite, active_validation, result_format_dict, evaluated, threads>>

\* the frames of at most MaxRows rows with integers and nulls
MapFrames ==
    UNION {{MkFrame(a, b) : a \in [1..n -> {Int1, Int2, Null}],
                            b \in [1..n -> {Int1, Null}]} : n \in 0..MaxRows}

\* two longer frames: a column with one duplicated value among four, and
\* two columns of three values that differ in the last row
ScenarioFrames ==
    {MkFrame(<<Int1, Int2, Int2, Int3>>, <<Int1, Int2, Null, Int4>>),
     MkFrame(<<Int1, Int2, Int3>>, <<Int1, Int2, Int4>>)}

MapInit ==
    /\ dataframe \in MapFrames \cup ScenarioFrames
    /\ suite = << >>
    /\ active_validation = TRUE
    /\ result_format_dict = HeldDict(None)
    /\ threads = NoThreads
    /\ ncalls = 0
    /\ evaluated = {}
    /\ res = NoCall

MapNext ==
    \/ evaluate_expect_column_values_to_be_unique
    \/ evaluate_expect_column_values_to_not_be_null
    \/ evaluate_expect_column_values_to_be_null
    \/ evaluate_expect_column_pair_values_to_be_equal
    \/ evaluate_expect_multicolumn_values_to_be_unique

MapSpec == MapInit /\ [][MapNext]_vars

(***************************************************************************)
(* The same expectation evaluated again and again on one batch: a first    *)
(* call with any arguments, then calls that repeat it.  The caller may     *)
(* hold a result_format dictionary and pass it each time.                  *)
(***************************************************************************)
\* number of evaluations in a row
MaxEvaluations == 2

\* the call is the first one or repeats the last one (a dictionary handed
\* over again is the same object, whatever it holds by now)
Repeats(op, args) ==
    \/ res.op = "none"
    \/ /\ res.op = op
       /\ [args EXCEPT !.partial_unexpected_count = None]
              = [res.args EXCEPT !.partial_unexpected_count = None]
       /\ ~args.result_format_held =>
              args.partial_unexpected_count = res.args.partial_unexpected_count

\* the result formats of the repeated calls: a level name, a fresh
\* dictionary with a bound, or the dictionary the caller holds
RepeatResultFormats ==
    {[result_format |-> None, held |-> FALSE, partial_unexpected_count |-> None],
     [result_format |-> Some("BOOLEAN_ONLY"), held |-> FALSE,
      partial_unexpected_count |-> None],
     [result_format |-> Some("BASIC"), held |-> FALSE,
      partial_unexpected_count |-> None],
     [result_format |-> Some("COMPLETE"), held |-> FALSE,
      partial_unexpected_count |-> Some(1)],
     [result_format |-> None, held |-> TRUE, partial_unexpected_count |-> None]}

\* the row filters of the repeated calls: none, or one with its parser
RepeatRowFilters ==
    {[row_condition |-> None, condition_parser |-> None],
     [row_condition |-> Some("A == 1"), condition_parser |-> Some("pandas")]}

repeat_column_map(func) ==
    /\ ncalls < MaxEvaluations
    /\ \E column \in Columns, mostly \in MostlyArgs, f \in RepeatResultFormats,
          r \in RepeatRowFilters :
          LET args == column_map_args(column, mostly, f.result_format, f.held,
                                      f.partial_unexpected_count, r.row_condition,
                                      r.condition_parser)
          IN  Repeats(func, args) /\ column_map_call(func, args)

repeat_expect_column_values_to_be_unique ==
    repeat_column_map("expect_column_values_to_be_unique")

repeat_expect_column_values_to_not_be_null ==
    repeat_column_map("expect_column_values_to_not_be_null")

repeat_expect_column_values_to_be_null ==
    repeat_column_map("expect_column_values_to_be_null")

repeat_expect_column_values_to_be_of_type ==
    /\ ncalls < MaxEvaluations
    /\ \E column \in Columns, type_ \in TypeArgs, o \in RoutedOptions :
          /\ Repeats("expect_column_values_to_be_of_type", of_type_args(column, type_, o))
          /\ of_type_call(column, type_, o)

repeat_expect_column_values_to_be_in_type_list ==
    /\ ncalls < MaxEvaluations
    /\ \E column \in Columns, type_list \in TypeLists, o \in RoutedOptions :
          /\ Repeats("expect_column_values_to_be_in_type_list",
                     in_type_list_args(column, type_list, o))
          /\ in_type_list_call(column, type_list, o)

\* the frames of the repeated calls: the routed frame, and a column with a
\* null beside a column with a duplicated value
RepeatFrames ==
    RoutedFrames \cup {MkFrame(<<Int1, Null>>, <<Int1, Int1>>)}

RepeatInit ==
    /\ dataframe \in RepeatFrames
    /\ suite \in InitialSuites
    /\ active_validation \in BOOLEAN
    /\ result_format_dict \in {HeldDict(None), HeldDict(Some(1))}
    /\ threads = NoThreads
    /\ ncalls = 0
    /\ evaluated = {}
    /\ res = NoCall

RepeatNext ==
    \/ repeat_expect_column_values_to_be_unique
    \/ repeat_expect_column_values_to_not_be_null
    \/ repeat_expect_column_values_to_be_null
    \/ repeat_expect_column_values_to_be_of_type
    \/ repeat_expect_column_values_to_be_in_type_list

RepeatSpec == RepeatInit /\ [][RepeatNext]_vars

(***************************************************************************)
(* Column-map expectations evaluated one after another on the same engine, *)
(* each with the default result format or with the one dictionary the      *)
(* caller holds and hands over again.                                      *)
(***************************************************************************)
\* a column-map expectation called in a session: result_format is left out
\* or is the caller's dictionary
session_column_map(func) ==
    /\ ncalls < MaxEvaluations
    /\ \E column \in Columns, mostly \in MostlyArgs, held \in BOOLEAN :
          column_map_call(func, column_map_args(column, mostly, None, held, None,
                                                None, None))

SessionInit ==
    /\ dataframe \in RepeatFrames
    /\ suite \in InitialSuites
    /\ active_validation \in BOOLEAN
    /\ result_format_dict \in {HeldDict(None), HeldDict(Some(1))}
    /\ threads = NoThreads
    /\ ncalls = 0
    /\ evaluated = {}
    /\ res = NoCall

SessionNext ==
    \/ session_column_map("expect_column_values_to_be_unique")
    \/ session_column_map("expect_column_values_to_not_be_null")
    \/ session_column_map("expect_column_values_to_be_null")

SessionSpec == SessionInit /\ [][SessionNext]_vars

(***************************************************************************)
(* The metrics read off a column: get_column_count_in_range and            *)
(* get_column_value_counts.  They return a value or raise.                 *)
(***************************************************************************)
\* get_column_count_in_range on integer bounds: a Series holding a str
\* cannot be compared with them; NaN compares False
get_column_count_in_range(df, column, min_val, max_val, strict_min, strict_max) ==
    LET result == SeriesValues(Series(df, column))
        above(x) == IF strict_min THEN x.v > Val(min_val) ELSE x.v >= Val(min_val)
        below(x) == IF strict_max THEN x.v < Val(max_val) ELSE x.v <= Val(max_val)
        inside(x) == /\ x.ty = "int"
                     /\ IsNone(min_val) \/ above(x)
                     /\ IsNone(max_val) \/ below(x)
    IN  IF IsNone(min_val) /\ IsNone(max_val)
        THEN Raise("ValueError", "Must specify either min or max value", NoLocals)
        ELSE IF ~IsNone(min_val) /\ ~IsNone(max_val) /\ Val(min_val) > Val(max_val)
        THEN Raise("ValueError", "Min value must be <= to max value", NoLocals)
        ELSE IF \E i \in 1..Len(result) : result[i].ty = "str"
        THEN Raise("TypeError", "not supported between instances", NoLocals)
        ELSE Return([EmptyRet EXCEPT
                        !.metric = <<Cardinality({i \in 1..Len(result) :
                                                     inside(result[i])})>>],
                    NoLocals)

\* the sequence s in ascending order of the integer keys key[i], entries
\* with equal keys in their order in s
stable_sort(s, key) ==
    LET place(i) == 1 + Cardinality({j \in 1..Len(s) :
                                        \/ key[j] < key[i]
                                        \/ key[j] = key[i] /\ j < i})
    IN  [r \in 1..Len(s) |-> s[CHOOSE i \in 1..Len(s) : place(i) = r]]

\* Series.value_counts(): one entry per distinct non-null value, the most
\* frequent first, equally frequent values in order of first appearance
value_counts(values) ==
    LET nonnull == Mask(values, [i \in 1..Len(values) |-> ~isnull(values[i])])
        firsts == Mask(nonnull, [i \in 1..Len(nonnull) |->
                                    ~\E j \in 1..(i - 1) : nonnull[j] = nonnull[i]])
        counts == [i \in 1..Len(firsts) |->
                      [value |-> firsts[i],
                       count |-> Cardinality({j \in 1..Len(nonnull) :
                                                 nonnull[j] = firsts[i]})]]
    IN  stable_sort(counts, [i \in 1..Len(counts) |-> 0 - counts[i].count])

\* counts.sort_index(): by value; values of several types cannot be
\* compared, and the index is then turned into strings and sorted as such
sort_index(counts) ==
    LET mixed == \E i, j \in 1..Len(counts) : counts[i].value.ty # counts[j].value.ty
        index == [i \in 1..Len(counts) |->
                     IF mixed THEN astype_str(counts[i].value) ELSE counts[i].value]
        key == [i \in 1..Len(counts) |->
                   IF index[i].ty = "int" THEN index[i].v
                   ELSE text_rank(text(index[i]))]
    IN  stable_sort([i \in 1..Len(counts) |-> [counts[i] EXCEPT !.value = index[i]]],
                    key)

\* get_column_value_counts taking any sort
get_column_value_counts_any_sort(df, column, sort, collate) ==
    LET counts == value_counts(SeriesValues(Series(df, column)))
    IN  IF ~IsNone(collate)
        THEN Raise("ValueError", "collate parameter is not supported", NoLocals)
        ELSE IF sort = "value" THEN Return([EmptyRet EXCEPT !.metric = sort_index(counts)], NoLocals)
        ELSE Return([EmptyRet EXCEPT !.metric = counts], NoLocals)

\* get_column_value_counts: sort 'count' is accepted and no branch handles
\* it (the branch that sorts by count tests for 'counts'), so the order of
\* value_counts() stays
get_column_value_counts(df, column, sort, collate) ==
    LET counts == value_counts(SeriesValues(Series(df, column)))
    IN  IF sort \notin {"value", "count", "none"}
        THEN Raise("ValueError", "sort must be either 'value', 'count', or 'none'", NoLocals)
        ELSE IF ~IsNone(collate)
        THEN Raise("ValueError", "collate parameter is not supported", NoLocals)
        ELSE IF sort = "value" THEN Return([EmptyRet EXCEPT !.metric = sort_index(counts)], NoLocals)
        ELSE Return([EmptyRet EXCEPT !.metric = counts], NoLocals)

(***************************************************************************)
(* Specification of the per-element predicates, the range checks and the   *)
(* column metrics: one call on a batch of mixed values.                    *)
(***************************************************************************)
\* a column-map expectation with arguments of its own, called with the row
\* filters and result formats drawn
evaluate_element(func, kwargs) ==
    /\ res.op = "none"
    /\ \E column \in Columns, result_format \in {None, Some("COMPLETE")}, r \in RepeatRowFilters :
          column_map_call(func,
                          [column_map_args(column, None, result_format, FALSE, None,
                                           r.row_condition, r.condition_parser)
                             EXCEPT !.kwargs = kwargs])

evaluate_expect_column_values_to_be_json_parseable ==
    evaluate_element("expect_column_values_to_be_json_parseable", NoArgs)

evaluate_expect_column_values_to_match_json_schema ==
    \E json_schema \in {"a_integer", "a_string", "type_bogus"} :
       evaluate_element("expect_column_values_to_match_json_schema",
                        [NoArgs EXCEPT !.json_schema = json_schema])

evaluate_expect_column_values_to_be_dateutil_parseable ==
    evaluate_element("expect_column_values_to_be_dateutil_parseable", NoArgs)

evaluate_expect_column_values_to_match_strftime_format ==
    \E strftime_format \in {"%Y-%m-%d", "%m/%d/%Y", "%D"} :
       evaluate_element("expect_column_values_to_match_strftime_format",
                        [NoArgs EXCEPT !.strftime_format = strftime_format])

evaluate_expect_column_values_to_be_between ==
    \E min_value \in BoundArgs, max_value \in BoundArgs, strict_min \in BOOLEAN, strict_max \in BOOLEAN, allow_cross_type_comparisons \in BOOLEAN :
       evaluate_element("expect_column_values_to_be_between",
                        [NoArgs EXCEPT !.min_value = min_value, !.max_value = max_value,
                                       !.strict_min = strict_min,
                                       !.strict_max = strict_max,
                                       !.allow_cross_type_comparisons =
                                           allow_cross_type_comparisons])

evaluate_expect_column_value_lengths_to_be_between ==
    \E min_value \in BoundArgs, max_value \in BoundArgs :
       evaluate_element("expect_column_value_lengths_to_be_between",
                        [NoArgs EXCEPT !.min_value = min_value, !.max_value = max_value])

evaluate_get_column_count_in_range ==
    /\ res.op = "none"
    /\ \E column \in Columns, min_val \in BoundArgs, max_val \in BoundArgs, strict_min \in BOOLEAN, strict_max \in BOOLEAN :
          /\ res' = Called("get_column_count_in_range",
                           [NoCallArgs EXCEPT
                               !.column = column,
                               !.kwargs = [NoArgs EXCEPT !.min_value = min_val,
                                                         !.max_value = max_val,
                                                         !.strict_min = strict_min,
                                                         !.strict_max = strict_max]],
                           "none",
                           get_column_count_in_range(dataframe, column, min_val,
                                                     max_val, strict_min, strict_max))
          /\ ncalls' = ncalls + 1
          /\ UNCHANGED <<dataframe, suite, active_validation, result_format_dict, evaluated, threads>>

evaluate_get_column_value_counts ==
    /\ res.op = "none"
    /\ \E column \in Columns, sort \in {"value", "count", "none", "counts"}, collate \in {None, Some("c")} :
          /\ res' = Called("get_column_value_counts",
                           [NoCallArgs EXCEPT
                               !.column = column,
                               !.kwargs = [NoArgs EXCEPT !.sort = sort,
                                                         !.collate = collate]],
                           "none",
                           get_column_value_counts(dataframe, column, sort, collate))
          /\ ncalls' = ncalls + 1
          /\ UNCHANGED <<dataframe, suite, active_validation, result_format_dict, evaluated, threads>>

\* the values of the batches: integers, strings of several kinds, null
ElementValues == {Int1, Int2, Str1, JsonOk, JsonOther, DateIso, DateUs, Null}

\* column A holds any values, column B the same values from the last row up;
\* and one frame of three rows where a value that comes later, or sorts
\* later, occurs more often
ElementFrames ==
    UNION {{MkFrame(a, [i \in 1..n |-> a[n + 1 - i]]) : a \in [1..n -> ElementValues]} : n \in 0..MaxRows}
    \cup {MkFrame(<<Int1, Int2, Int2>>, <<Int2, Str1, Str1>>)}

ElementInit ==
    /\ dataframe \in ElementFrames
    /\ suite = << >>
    /\ active_validation = TRUE
    /\ result_format_dict = HeldDict(None)
    /\ threads = NoThreads
    /\ ncalls = 0
    /\ evaluated = {}
    /\ res = NoCall

ElementNext ==
    \/ evaluate_expect_column_values_to_be_json_parseable
    \/ evaluate_expect_column_values_to_match_json_schema
    \/ evaluate_expect_column_values_to_be_dateutil_parseable
    \/ evaluate_expect_column_values_to_match_strftime_format
    \/ evaluate_expect_column_values_to_be_between
    \/ evaluate_expect_column_value_lengths_to_be_between
    \/ evaluate_get_column_count_in_range
    \/ evaluate_get_column_value_counts

ElementSpec == ElementInit /\ [][ElementNext]_vars

(***************************************************************************)
(* Properties of the type-routed expectations (checked under Spec).        *)
(***************************************************************************)
CountEntries(expectation_type, column) ==
    Cardinality({i \in 1..Len(suite) :
                    /\ suite[i].expectation_type = expectation_type
                    /\ suite[i].kwargs.column = column})

RoutedCall == res.op \in PublicNames

\* the column's declared type is closed
ClosedColumn == dtype(dataframe, res.args.column) # "object"

ObjectTypeNames == {"object", "object_", "O"}

\* the names the last call requested, as a sequence
RequestedNames ==
    IF res.op = "expect_column_values_to_be_of_type"
    THEN (IF IsNone(res.args.type_) THEN << >> ELSE <<Val(res.args.type_)>>)
    ELSE (IF IsNone(res.args.type_list) THEN << >> ELSE Val(res.args.type_list))

\* no type constraint was requested (type_ or type_list is None)
RequestAbsent ==
    IF res.op = "expect_column_values_to_be_of_type"
    THEN IsNone(res.args.type_) ELSE IsNone(res.args.type_list)

\* the request names nothing but the open object type
RequestDegenerate ==
    /\ ~RequestAbsent
    /\ Len(RequestedNames) > 0
    /\ \A i \in 1..Len(RequestedNames) : RequestedNames[i] \in ObjectTypeNames

\* the concrete types the requested names resolve to
ResolvedTypes ==
    UNION {Range(comp_types_of(RequestedNames[i])) : i \in 1..Len(RequestedNames)}

\* C1: after any sequence of type-routed calls outside an active validation,
\* the suite holds exactly one entry for each (public kind, column) that was
\* evaluated and no entry under one of the four internal routed names.
C1_SuiteIdentity ==
    /\ \A e \in evaluated : CountEntries(e[1], e[2]) = 1
    /\ \A i \in 1..Len(suite) : suite[i].expectation_type \notin InternalNames

\* two different identities evaluated, one of them replacing an entry that the
\* suite held from the start
C1_Witness ==
    /\ ~active_validation
    /\ evaluated = {<<"expect_column_values_to_be_of_type", "B">>,
                    <<"expect_column_values_to_be_in_type_list", "B">>}
    /\ Len(suite) = 4
    /\ res.normalized

\* C2: the entry relabelled to the public kind has the kwargs, the meta and
\* the success_on_last_run of the internal entry and stands at the position
\* the internal entry was found at; only the kind differs.
C2_RelabelPreserves ==
    res.normalized =>
        /\ res.new_index \in 1..Len(suite)
        /\ res.recorded.expectation_type = InternalName(res.op, res.path)
        /\ suite[res.new_index].expectation_type = res.op
        /\ suite[res.new_index].kwargs = res.recorded.kwargs
        /\ suite[res.new_index].meta = res.recorded.meta
        /\ suite[res.new_index].success_on_last_run = res.recorded.success_on_last_run

\* a relabelled map-path entry that carries a meta, mostly and a failed run,
\* after the old public entry before it was removed
C2_Witness ==
    /\ res.normalized
    /\ res.path = "map"
    /\ suite[res.new_index].meta = Some("note")
    /\ suite[res.new_index].kwargs.mostly = Some(50)
    /\ suite[res.new_index].success_on_last_run = Some(FALSE)
    /\ suite[1].expectation_type = "expect_column_values_to_be_unique"
    /\ res.new_index = 3

\* C3: a type-routed call takes the aggregate path iff the column's declared
\* type is closed or the requested type constraint is absent or degenerate
\* (a name of the open object type), and the map path otherwise.
C3_RoutingRule ==
    RoutedCall =>
        /\ res.path \in {"aggregate", "map"}
        /\ res.path = "aggregate" <=> (ClosedColumn \/ RequestAbsent \/ RequestDegenerate)

\* C4: on the aggregate path a mostly that is not None fails with ValueError
\* before any type comparison, whatever the column and the requested type.
C4_AggregateRejectsMostly ==
    (RoutedCall /\ res.path = "aggregate" /\ ~IsNone(res.args.mostly)) =>
        /\ res.outcome = "ValueError"
        /\ ~res.locals.compared
        /\ res.ret = EmptyRet

\* mostly supplied with a type the closed column does have
C4_Witness ==
    /\ res.op = "expect_column_values_to_be_of_type"
    /\ res.path = "aggregate"
    /\ res.args.column = "A"
    /\ res.args.type_ = Some("int64")
    /\ res.args.mostly = Some(50)
    /\ res.outcome = "ValueError"

\* C5: on either path, requested type names that resolve to no concrete type
\* make the evaluation fail with ValueError instead of returning a result.
C5_UnrecognizedTypeFails ==
    (RoutedCall /\ ~RequestAbsent /\ ResolvedTypes = {}) => res.outcome = "ValueError"

\* C6: on the aggregate path with mostly unset the call returns, with the
\* declared type's name as observed_value and success iff the request is
\* absent or the declared type is among the resolved types; no value is read.
C6_AggregateResult ==
    (RoutedCall /\ res.path = "aggregate" /\ IsNone(res.args.mostly)) =>
        LET dt == dtype(dataframe, res.args.column)
        IN  /\ res.outcome = "ok"
            /\ res.ret.keys = {"success", "result", "observed_value"}
            /\ res.ret.observed_value =
                   (CASE dt = "int64" -> "int64" [] dt = "float64" -> "float64"
                      [] OTHER -> "object_")
            /\ res.ret.success <=> (RequestAbsent \/ dtype_type(dt) \in ResolvedTypes)
            /\ ~res.locals.predicate_called
            /\ res.locals.nonnull_values = << >>

\* the open column checked against the object type: success, observed object_
C6_Witness ==
    /\ RoutedCall
    /\ res.path = "aggregate"
    /\ res.args.column = "B"
    /\ RequestDegenerate
    /\ res.outcome = "ok"
    /\ res.ret.success
    /\ res.ret.observed_value = "object_"

\* C7: in an active validation a type-routed call leaves the suite as it was.
C7_ActiveValidationFrame ==
    [][active_validation => suite' = suite]_vars

\* a call that returned in an active validation on the column whose public
\* entry the bookkeeping would have removed
C7_Witness ==
    /\ active_validation
    /\ res.op = "expect_column_values_to_be_of_type"
    /\ res.args.column = "B"
    /\ res.outcome = "ok"
    /\ CountEntries("expect_column_values_to_be_of_type", "B") = 1
    /\ ncalls = 2

(***************************************************************************)
(* Properties of the map expectations (checked under MapSpec).             *)
(***************************************************************************)
ColumnMapFuncs ==
    {"expect_column_values_to_be_unique", "expect_column_values_to_not_be_null",
     "expect_column_values_to_be_null"}

ColumnMapCall == res.op \in ColumnMapFuncs

PairMapCall == res.op = "expect_column_pair_values_to_be_equal"

MulticolumnMapCall == res.op = "expect_multicolumn_values_to_be_unique"

MapCall == ColumnMapCall \/ PairMapCall \/ MulticolumnMapCall

\* the call named a row filter
RowFilterSupplied == Truthy(res.args.row_condition)

ValidParser == res.args.condition_parser \in {Some("python"), Some("pandas")}

\* the ignore_row_if of the call is one its strategy knows
KnownIgnoreRowIf ==
    /\ PairMapCall =>
          res.args.ignore_row_if \in {None, Some("both_values_are_missing"),
                                      Some("either_value_is_missing"), Some("never")}
    /\ MulticolumnMapCall =>
          res.args.ignore_row_if \in {None, Some("all_values_are_missing"),
                                      Some("any_value_is_missing"), Some("never")}

\* the rows of the batch data that satisfy the row filter, in row order
FilteredRows ==
    SelectSeq(dataframe, LAMBDA row : RowSatisfies(row, Val(res.args.row_condition)))

\* the result of a filtered evaluation counts the rows that satisfy the
\* filter and reports each unexpected index as a position among those rows
FilterApplied ==
    /\ res.outcome = "ok"
    /\ res.ret.element_count = Len(FilteredRows)
    /\ Len(res.locals.unexpected_index_list) = Len(res.locals.unexpected_list)
    /\ \A i \in 1..Len(res.locals.unexpected_index_list) :
          LET p == res.locals.unexpected_index_list[i]
          IN  /\ p \in 0..(Len(FilteredRows) - 1)
              /\ ColumnMapCall =>
                    FilteredRows[p + 1][res.args.column] = res.locals.unexpected_list[i]

\* C8: for each of the three map strategies, a row filter with a valid parser
\* is applied first and the evaluation returns a result whose element_count
\* is the number of rows satisfying the filter and whose unexpected indexes
\* are 0-based positions among the filtered rows.
C8_RowFilterApplied ==
    (/\ MapCall
     /\ RowFilterSupplied
     /\ ValidParser
     /\ KnownIgnoreRowIf
     /\ res.args.result_format # Some("BOOLEAN_ONLY")) => FilterApplied

\* C9: for every map strategy, a row filter with a condition_parser other than
\* 'python' or 'pandas' (an absent one included) fails with ValueError and
\* evaluates no predicate.
C9_InvalidParserRejected ==
    (MapCall /\ RowFilterSupplied /\ ~ValidParser) =>
        /\ res.outcome = "ValueError"
        /\ ~res.locals.predicate_called

\* the values of the evaluated column in the working data of the last call
WorkingValues ==
    [i \in 1..Len(res.locals.data) |-> res.locals.data[i][res.args.column]]

\* C10: in column-map evaluation the predicate receives exactly the non-null
\* values in row order and evaluated_count is their number, except for the
\* two null-presence checks, which receive every value, nulls included, and
\* whose evaluated_count is element_count, the denominator of the ratio that
\* mostly is compared with.
C10_NullPartition ==
    (ColumnMapCall /\ res.locals.predicate_called) =>
        /\ res.locals.element_count = Len(WorkingValues)
        /\ IF res.op \in {"expect_column_values_to_not_be_null",
                          "expect_column_values_to_be_null"}
           THEN /\ res.locals.nonnull_values = WorkingValues
                /\ res.locals.nonnull_count = res.locals.element_count
           ELSE /\ res.locals.nonnull_values =
                       SelectSeq(WorkingValues, LAMBDA x : x.ty # "null")
                /\ res.locals.nonnull_count =
                       Cardinality({i \in 1..Len(WorkingValues) :
                                       WorkingValues[i].ty # "null"})

\* values-not-null with mostly on a column holding a null and a value: both
\* rows are evaluated and one of two passes the threshold
C10_Witness ==
    /\ res.op = "expect_column_values_to_not_be_null"
    /\ res.args.column = "A"
    /\ res.args.mostly = Some(50)
    /\ res.outcome = "ok"
    /\ res.locals.nonnull_values = <<Null, Int1>>
    /\ res.locals.nonnull_count = 2
    /\ res.locals.success_count = 1
    /\ res.ret.success

NullPresenceCall == res.op \in NullPresenceChecks

\* the detail level of the last call (the default where none was given)
DetailLevel ==
    IF IsNone(res.args.result_format) THEN DefaultResultFormat
    ELSE Val(res.args.result_format)

MissingFields == {"missing_count", "missing_percent", "unexpected_percent_nonmissing"}

\* C11: a result returned by one of the two null-presence checks holds none
\* of missing_count, missing_percent and unexpected_percent_nonmissing, at any
\* detail level and for any column; a result returned by another column-map
\* expectation at BASIC or a higher level holds all three.
C11_NullPresenceFields ==
    (ColumnMapCall /\ res.outcome = "ok") =>
        IF NullPresenceCall
        THEN res.ret.keys \cap MissingFields = {}
        ELSE DetailLevel # "BOOLEAN_ONLY" => MissingFields \subseteq res.ret.keys

\* values-not-null at BASIC on a column with a null: the counts are returned
\* without the three fields
C11_Witness ==
    /\ res.op = "expect_column_values_to_not_be_null"
    /\ res.args.result_format = Some("BASIC")
    /\ res.outcome = "ok"
    /\ \E i \in 1..Len(WorkingValues) : isnull(WorkingValues[i])
    /\ "unexpected_count" \in res.ret.keys
    /\ "missing_count" \notin res.ret.keys

\* C12: at BOOLEAN_ONLY every column-map expectation, the two null-presence
\* checks included, returns, and the result holds the success flag alone.
C12_BooleanOnlyReturns ==
    (/\ ColumnMapCall
     /\ res.args.result_format = Some("BOOLEAN_ONLY")
     /\ RowFilterSupplied => ValidParser) =>
        /\ res.outcome = "ok"
        /\ res.ret.keys = {"success"}

\* the rows ignore_row_if names for exclusion in a column-pair call
PairExcluded(policy, row) ==
    CASE policy = "both_values_are_missing" -> row.A.ty = "null" /\ row.B.ty = "null"
      [] policy = "either_value_is_missing" -> row.A.ty = "null" \/ row.B.ty = "null"
      [] OTHER -> FALSE

\* the rows ignore_row_if names for exclusion in a multicolumn call
MultiExcluded(policy, row) ==
    LET cols == Range(res.args.column_list)
    IN  CASE policy = "all_values_are_missing" -> \A c \in cols : row[c].ty = "null"
          [] policy = "any_value_is_missing" -> \E c \in cols : row[c].ty = "null"
          [] OTHER -> FALSE

\* C13: ignore_row_if excludes the rows it names.  Column-pair: a row is left
\* out iff both values are null (both_values_are_missing, the default), iff
\* at least one is null (either_value_is_missing), never (never).
\* Multicolumn: iff every targeted column is null (all_values_are_missing,
\* the default), iff at least one is (any_value_is_missing), never (never).
\* Any other value fails with ValueError before the predicate is called.
C13_IgnoreRowIfPolicy ==
    /\ PairMapCall =>
          LET policy == IF IsNone(res.args.ignore_row_if) THEN "both_values_are_missing"
                        ELSE Val(res.args.ignore_row_if)
              kept == SelectSeq(res.locals.data, LAMBDA row : ~PairExcluded(policy, row))
          IN  IF policy \in {"both_values_are_missing", "either_value_is_missing", "never"}
              THEN /\ res.locals.predicate_called
                   /\ res.locals.nonnull_count = Len(kept)
                   /\ res.locals.nonnull_values =
                          [i \in 1..Len(kept) |-> <<kept[i].A, kept[i].B>>]
              ELSE /\ res.outcome = "ValueError"
                   /\ ~res.locals.predicate_called
    /\ MulticolumnMapCall =>
          LET policy == IF IsNone(res.args.ignore_row_if) THEN "all_values_are_missing"
                        ELSE Val(res.args.ignore_row_if)
              kept == SelectSeq(res.locals.data, LAMBDA row : ~MultiExcluded(policy, row))
          IN  IF policy \in {"all_values_are_missing", "any_value_is_missing", "never"}
              THEN /\ res.locals.predicate_called
                   /\ res.locals.nonnull_count = Len(kept)
                   /\ res.locals.nonnull_values =
                          [i \in 1..Len(kept) |->
                              [c \in Range(res.args.column_list) |-> kept[i][c]]]
              ELSE /\ res.outcome = "ValueError"
                   /\ ~res.locals.predicate_called

\* a pair call with either_value_is_missing on a frame with a half-null row
\* and a full row: the half-null row is left out
C13_Witness ==
    /\ PairMapCall
    /\ res.args.ignore_row_if = Some("either_value_is_missing")
    /\ res.outcome = "ok"
    /\ Len(dataframe) = 2
    /\ dataframe[1].A = Int1 /\ dataframe[1].B = Null
    /\ dataframe[2].A = Int2 /\ dataframe[2].B = Int1
    /\ res.locals.nonnull_values = <<<<Int2, Int1>>>>
    /\ res.ret.missing_count = 1

\* C14: a map evaluation over at least one evaluated row returns the success
\* the threshold gives: with mostly unset, success iff success_count equals
\* evaluated_count; with mostly set, success iff success_count over
\* evaluated_count is at least mostly (equality passes).
C14_ThresholdRule ==
    (MapCall /\ res.outcome = "ok" /\ res.locals.nonnull_count > 0) =>
        (res.ret.success <=>
            IF IsNone(res.args.mostly)
            THEN res.locals.success_count = res.locals.nonnull_count
            ELSE res.locals.success_count * 100
                     >= Val(res.args.mostly) * res.locals.nonnull_count)

\* values-null with mostly one half on a column of a value and a null: one
\* of two evaluated values passes, which meets the threshold exactly
C14_Witness ==
    /\ res.op = "expect_column_values_to_be_null"
    /\ res.args.mostly = Some(50)
    /\ res.outcome = "ok"
    /\ res.locals.nonnull_count = 2
    /\ res.locals.success_count = 1
    /\ res.ret.success

\* the last call had nothing wrong with its arguments
ValidMapArguments ==
    /\ RowFilterSupplied => ValidParser
    /\ KnownIgnoreRowIf

\* C15: an evaluation over no row (an empty column, a column whose values
\* are all ignored, a row filter that keeps no row) returns success, with or
\* without mostly, and its success ratio is null.
C15_EmptyPopulationSucceeds ==
    (/\ MapCall
     /\ ValidMapArguments
     /\ res.locals.predicate_called
     /\ res.locals.nonnull_count = 0) =>
        /\ res.outcome = "ok"
        /\ res.ret.success
        /\ IsNone(res.locals.percent_success)

\* the sample bound in force for the last call: the one the call named, the
\* default otherwise, and 0 for the two null-presence checks
SampleBound ==
    IF NullPresenceCall THEN 0
    ELSE IF IsNone(res.args.partial_unexpected_count) THEN 20
    ELSE Val(res.args.partial_unexpected_count)

EvaluatedValues == SelectSeq(WorkingValues, LAMBDA x : x.ty # "null")

\* how many times x occurs in the sequence s
Occurrences(s, x) == Cardinality({i \in 1..Len(s) : s[i] = x})

\* C17: values-unique reports an evaluated value as unexpected iff it occurs
\* more than once among the evaluated values, every occurrence in row order;
\* on the column [1,2,2,3] with mostly unset it returns success False,
\* unexpected_count 2 and partial_unexpected_list [2,2].
C17_UniqueDuplicates ==
    (res.op = "expect_column_values_to_be_unique" /\ res.outcome = "ok") =>
        /\ res.locals.unexpected_list =
               SelectSeq(EvaluatedValues,
                         LAMBDA x : Occurrences(EvaluatedValues, x) > 1)
        /\ (/\ WorkingValues = <<Int1, Int2, Int2, Int3>>
            /\ IsNone(res.args.mostly)
            /\ IsNone(res.args.result_format)) =>
               /\ ~res.ret.success
               /\ res.ret.unexpected_count = 2
               /\ res.ret.partial_unexpected_list = <<Int2, Int2>>

\* values-unique evaluated on the column [1,2,2,3] with mostly unset
C17_Witness ==
    /\ res.op = "expect_column_values_to_be_unique"
    /\ res.outcome = "ok"
    /\ WorkingValues = <<Int1, Int2, Int2, Int3>>
    /\ IsNone(res.args.mostly)
    /\ IsNone(res.args.result_format)
    /\ res.ret.unexpected_count = 2

\* the (A, B) pairs of the rows of the working data where A differs from B
\* (a null differs from every value, a null included), in row order
DifferingPairs ==
    LET differing == SelectSeq(res.locals.data,
                               LAMBDA row : \/ row.A.ty = "null"
                                            \/ row.B.ty = "null"
                                            \/ row.A # row.B)
    IN  [i \in 1..Len(differing) |-> <<differing[i].A, differing[i].B>>]

\* C18: pair-equality with ignore_row_if "never" evaluates every row, and its
\* unexpected list is the (A, B) pairs of the rows where A differs from B, in
\* row order, unexpected_count being their number; for A = [1,2,3] and
\* B = [1,2,4] that is one unexpected pair, (3,4).
C18_PairEqualityNever ==
    (/\ PairMapCall
     /\ res.args.ignore_row_if = Some("never")
     /\ res.locals.predicate_called) =>
        /\ res.locals.nonnull_count = res.locals.element_count
        /\ res.locals.element_count = Len(res.locals.data)
        /\ res.locals.unexpected_list = DifferingPairs
        /\ (res.outcome = "ok" /\ DetailLevel # "BOOLEAN_ONLY") =>
              (res.ret.unexpected_count = Len(DifferingPairs))
        /\ (res.outcome = "ok" /\ DetailLevel = "COMPLETE") =>
              (res.ret.unexpected_list = DifferingPairs)
        /\ (/\ res.outcome = "ok"
            /\ DetailLevel # "BOOLEAN_ONLY"
            /\ SeriesValues(Series(dataframe, "A")) = <<Int1, Int2, Int3>>
            /\ SeriesValues(Series(dataframe, "B")) = <<Int1, Int2, Int4>>) =>
               /\ res.ret.unexpected_count = 1
               /\ res.locals.unexpected_list = <<<<Int3, Int4>>>>

\* pair-equality with "never" at COMPLETE on A = [1,2,3], B = [1,2,4]
C18_Witness ==
    /\ PairMapCall
    /\ res.args.ignore_row_if = Some("never")
    /\ res.args.result_format = Some("COMPLETE")
    /\ res.outcome = "ok"
    /\ Len(dataframe) = 3
    /\ dataframe[3].A = Int3 /\ dataframe[3].B = Int4
    /\ res.ret.unexpected_count = 1
    /\ res.ret.unexpected_list = <<<<Int3, Int4>>>>
    /\ res.ret.unexpected_index_list = <<2>>

(***************************************************************************)
(* Properties of repeated evaluation (checked under RepeatSpec).           *)
(***************************************************************************)
\* C19: an expectation evaluated a second time in a row with the same
\* arguments on the unchanged batch ends as the first evaluation did, with
\* the same result: same success, counts, percentages, samples and fields.
C19_RepeatIdentical ==
    [][(/\ res.op # "none"
        /\ res'.op = res.op
        /\ ncalls' = ncalls + 1
        /\ dataframe' = dataframe) =>
           /\ res'.outcome = res.outcome
           /\ res'.ret = res.ret]_vars

\* values-not-null evaluated twice outside a validation with the dictionary
\* the caller holds, which named a sample bound of 1 and now names 0
C19_Witness ==
    /\ ncalls = 2
    /\ res.op = "expect_column_values_to_not_be_null"
    /\ res.args.column = "A"
    /\ res.args.result_format_held
    /\ res.args.partial_unexpected_count = Some(0)
    /\ result_format_dict.partial_unexpected_count = Some(0)
    /\ ~active_validation
    /\ res.outcome = "ok"
    /\ res.ret.unexpected_count = 1
    /\ CountEntries("expect_column_values_to_not_be_null", "A") = 1

(***************************************************************************)
(* Properties of the bookkeeping run by threads (checked under ThreadSpec).*)
(***************************************************************************)
\* no thread is between its call and its return
Quiescent == \A t \in Threads : ~Running(t)

\* every call started after the calls before it had returned
Serial == \A t \in Threads : ~threads[t].overlapped

\* the threads whose routed function has returned outside a validation
Recorded == {t \in Threads : threads[t].pc = "done" /\ threads[t].internal # ""
                             /\ threads[t].outcome \in {"ok", "AssertionError", "IndexError"}}

\* the bookkeeping went wrong: an assertion or an index failed, or the suite
\* holds no or several public entries for the identity, or an internal name
Broken ==
    \/ \E t \in Recorded : threads[t].outcome # "ok"
    \/ \E t \in Recorded : CountEntries(threads[t].public, threads[t].column) # 1
    \/ \E i \in 1..Len(suite) : suite[i].expectation_type \in InternalNames

\* C20: when each evaluation of a type-routed expectation runs to its end
\* before the next one starts, no evaluation fails its internal-entry
\* assertion and the suite ends with exactly one public entry for the
\* identity and no internal-named entry; with the steps of two evaluations
\* interleaved a state where this fails is reachable (the witness).
C20_SerialNormalizes ==
    (Quiescent /\ Serial /\ ~active_validation) => ~Broken

\* two interleaved evaluations of the same kind and column have both ended:
\* one failed its assertion and the suite holds no public entry for them
C20_Witness ==
    /\ Quiescent
    /\ ~active_validation
    /\ Recorded = Threads
    /\ \E t \in Threads : threads[t].overlapped
    /\ \E t \in Threads : threads[t].outcome = "AssertionError"
    /\ \E t \in Threads : threads[t].outcome = "ok"
    /\ \A t \in Threads : CountEntries(threads[t].public, threads[t].column) = 0

(***************************************************************************)
(* Properties of the per-element predicates, the range checks and the      *)
(* column metrics (checked under ElementSpec).                             *)
(***************************************************************************)
PerElementPredicates ==
    {"expect_column_values_to_be_json_parseable",
     "expect_column_values_to_match_json_schema",
     "expect_column_values_to_be_dateutil_parseable",
     "expect_column_values_to_match_strftime_format",
     "expect_column_values_to_be_between"}

\* the last call's own arguments are well formed: a schema that exists, a
\* format that parses, bounds that are present and ordered
WellConfigured ==
    CASE res.op = "expect_column_values_to_match_json_schema" ->
            res.args.kwargs.json_schema # "type_bogus"
      [] res.op = "expect_column_values_to_match_strftime_format" ->
            res.args.kwargs.strftime_format # "%D"
      [] res.op = "expect_column_values_to_be_between" ->
            /\ ~(IsNone(res.args.kwargs.min_value) /\ IsNone(res.args.kwargs.max_value))
            /\ \/ IsNone(res.args.kwargs.min_value)
               \/ IsNone(res.args.kwargs.max_value)
               \/ Val(res.args.kwargs.min_value) <= Val(res.args.kwargs.max_value)
      [] OTHER -> TRUE

\* the value cannot be parsed, or compared, by the last call's predicate
Unparseable(x) ==
    CASE res.op \in {"expect_column_values_to_be_json_parseable",
                     "expect_column_values_to_match_json_schema"} ->
            x.ty # "str" \/ x \notin {JsonOk, JsonOther}
      [] res.op = "expect_column_values_to_be_dateutil_parseable" ->
            x.ty # "str" \/ x \notin {DateIso, DateUs}
      [] res.op = "expect_column_values_to_match_strftime_format" ->
            x.ty # "str" \/ x \notin {DateIso, DateUs}
      [] OTHER -> x.ty # "int"

\* C21: a per-element predicate with well-formed arguments returns a result,
\* and every evaluated value that cannot be parsed or compared is among the
\* unexpected values; such a value never makes the evaluation raise.
C21_ElementErrorsCounted ==
    (res.op \in PerElementPredicates /\ WellConfigured) =>
        /\ res.outcome = "ok"
        /\ \A i \in 1..Len(res.locals.nonnull_values) :
              Unparseable(res.locals.nonnull_values[i]) =>
                 res.locals.nonnull_values[i] \in Range(res.locals.unexpected_list)

\* the last call is a JSON-schema match whose row filter, if any, is usable
SchemaCall ==
    /\ res.op = "expect_column_values_to_match_json_schema"
    /\ res.locals.predicate_called

\* C22: in the JSON-schema match, with a well-formed schema an evaluation
\* that returns reports exactly the values violating the schema as
\* unexpected, and one that raises does so on a value that is not JSON, never
\* on a value that parses; with a malformed schema an evaluation of at least
\* one value never returns a result, and raises the schema error when the
\* first evaluated value parses.
C22_SchemaErrorReraised ==
    SchemaCall =>
        LET json_schema == res.args.kwargs.json_schema
            vals == res.locals.nonnull_values
            parses(x) == x \in {JsonOk, JsonOther}
            violates(x) == \/ x = JsonOk /\ json_schema = "a_string"
                           \/ x = JsonOther /\ json_schema = "a_integer"
        IN  IF json_schema # "type_bogus"
            THEN /\ res.outcome = "ok" =>
                       res.locals.unexpected_list =
                          Mask(vals, [i \in 1..Len(vals) |-> violates(vals[i])])
                 /\ res.outcome # "ok" =>
                       /\ res.outcome \in {"JSONDecodeError", "TypeError"}
                       /\ \E i \in 1..Len(vals) : ~parses(vals[i])
            ELSE /\ Len(vals) > 0 => res.outcome # "ok"
                 /\ (Len(vals) > 0 /\ parses(vals[1])) => res.outcome = "SchemaError"
                 /\ res.outcome = "ok" => res.locals.unexpected_list = << >>

\* a malformed schema on a column whose two values are JSON: SchemaError
C22_Witness ==
    /\ SchemaCall
    /\ res.args.kwargs.json_schema = "type_bogus"
    /\ res.locals.nonnull_values = <<JsonOk, JsonOther>>
    /\ res.outcome = "SchemaError"

\* the three range checks, once past the row filter of the wrapper
RangeCall ==
    /\ res.op \in {"expect_column_values_to_be_between",
                   "expect_column_value_lengths_to_be_between",
                   "get_column_count_in_range"}
    /\ res.op # "get_column_count_in_range" => res.locals.predicate_called

\* the call ended in the error of a malformed range, raised before any value
\* was looked at
RangeRejected ==
    /\ res.outcome = "ValueError"
    /\ res.message \in {"min_value and max_value cannot both be None",
                        "min_value cannot be greater than max_value",
                        "Must specify either min or max value",
                        "Min value must be <= to max value"}

\* C23: each of the three range checks fails with ValueError, before it tests
\* a value, when both bounds are absent; expect_column_values_to_be_between
\* and get_column_count_in_range also when both are present and min > max;
\* no other bounds are rejected, min == max included.
C23_MalformedBoundsRejected ==
    RangeCall =>
        LET min_value == res.args.kwargs.min_value
            max_value == res.args.kwargs.max_value
            absent == IsNone(min_value) /\ IsNone(max_value)
            inverted == /\ ~IsNone(min_value) /\ ~IsNone(max_value)
                        /\ Val(min_value) > Val(max_value)
                        /\ res.op # "expect_column_value_lengths_to_be_between"
        IN  RangeRejected <=> (absent \/ inverted)

\* expect_column_values_to_be_between with min_value 2 and max_value 1 on a
\* column of two integers inside both bounds taken alone
C23_Witness ==
    /\ res.op = "expect_column_values_to_be_between"
    /\ res.args.kwargs.min_value = Some(2)
    /\ res.args.kwargs.max_value = Some(1)
    /\ res.locals.nonnull_values = <<Int1, Int2>>
    /\ RangeRejected
    /\ res.message = "min_value cannot be greater than max_value"

\* the number of rows of the evaluated data the last map call leaves out:
\* the nulls of the column (none for a null-presence check), or the rows its
\* ignore_row_if names
IgnoredRows ==
    LET pair == IF IsNone(res.args.ignore_row_if) THEN "both_values_are_missing"
                ELSE Val(res.args.ignore_row_if)
        multi == IF IsNone(res.args.ignore_row_if) THEN "all_values_are_missing"
                 ELSE Val(res.args.ignore_row_if)
        ignored(row) ==
            IF PairMapCall THEN PairExcluded(pair, row)
            ELSE IF MulticolumnMapCall THEN MultiExcluded(multi, row)
            ELSE ~NullPresenceCall /\ isnull(row[res.args.column])
    IN  Cardinality({i \in 1..Len(res.locals.data) : ignored(res.locals.data[i])})

\* C24: in every map evaluation that returns a result, success_count plus
\* unexpected_count is the evaluated count, the evaluated count plus the
\* ignored rows is element_count, unexpected_count is the length of the full
\* unexpected list and of the full unexpected index list, and
\* 0 <= unexpected_count <= evaluated count <= element_count.
C24_CountsConsistent ==
    (MapCall /\ res.outcome = "ok") =>
        LET unexpected_count == Len(res.locals.unexpected_list)
        IN  /\ res.locals.success_count + unexpected_count = res.locals.nonnull_count
            /\ res.locals.nonnull_count + IgnoredRows = res.locals.element_count
            /\ res.locals.element_count = Len(res.locals.data)
            /\ Len(res.locals.unexpected_index_list) = unexpected_count
            /\ "unexpected_count" \in res.ret.keys =>
                  /\ res.ret.unexpected_count = unexpected_count
                  /\ res.ret.element_count = res.locals.element_count
            /\ "unexpected_list" \in res.ret.keys =>
                  /\ Len(res.ret.unexpected_list) = unexpected_count
                  /\ Len(res.ret.unexpected_index_list) = unexpected_count
            /\ 0 <= unexpected_count
            /\ unexpected_count <= res.locals.nonnull_count
            /\ res.locals.nonnull_count <= res.locals.element_count

\* a column-pair call over two rows: one left out for its null, the other
\* with differing values
C24_Witness ==
    /\ PairMapCall
    /\ res.outcome = "ok"
    /\ res.args.ignore_row_if = Some("either_value_is_missing")
    /\ res.args.result_format = Some("COMPLETE")
    /\ res.locals.element_count = 2
    /\ res.locals.nonnull_count = 1
    /\ res.locals.success_count = 0
    /\ res.ret.unexpected_count = 1
    /\ Len(res.ret.unexpected_index_list) = 1

\* the entries of a suite that do not have the identity (kind, column) nor
\* an internal routed name of the kind on that column, in list order
OtherEntries(expectations, public, column) ==
    SelectSeq(expectations,
              LAMBDA e : ~(/\ e.kwargs.column = column
                           /\ e.expectation_type \in
                                 {public, InternalName(public, "aggregate"),
                                  InternalName(public, "map")}))

\* C25: a type-routed call for (kind K, column c) changes only suite entries
\* with identity (K, c) or (internal name of K, c): every other entry, the
\* other type-routed kind on c and kind K on other columns included, is
\* still there afterwards, unchanged and in the same relative order.
C25_NormalizeFrame ==
    [][(res'.op \in PublicNames /\ ncalls' = ncalls + 1) =>
          OtherEntries(suite', res'.op, res'.args.column)
             = OtherEntries(suite, res'.op, res'.args.column)]_vars

\* expect_column_values_to_be_of_type on B replaced the first entry of a
\* suite that also holds a uniqueness entry on B, the type-list entry on A
\* and a type-list entry on B
C25_Witness ==
    /\ ~active_validation
    /\ res.op = "expect_column_values_to_be_of_type"
    /\ res.args.column = "B"
    /\ res.normalized
    /\ Len(suite) = 4
    /\ suite[1].expectation_type = "expect_column_values_to_be_unique"
    /\ suite[2].expectation_type = "expect_column_values_to_be_in_type_list"
    /\ suite[2].kwargs.column = "A"
    /\ suite[3].expectation_type = "expect_column_values_to_be_in_type_list"
    /\ suite[3].kwargs.column = "B"
    /\ suite[4].expectation_type = "expect_column_values_to_be_of_type"

(***************************************************************************)
(* The assertion of the bookkeeping (checked under Spec).                  *)
(***************************************************************************)
\* C26: outside an active validation a type-routed call never ends in the
\* AssertionError of `assert len(new_expectations) == 1`; when the routed
\* function returned, the index found is a position of the suite and the
\* entry found there is the internal entry of this very call (its routed
\* name, its column, its requested type, its row filter and its meta), also
\* when the public entry removed just before stood in front of it.
C26_AssertionHolds ==
    (RoutedCall /\ ~active_validation) =>
        /\ res.outcome # "AssertionError"
        /\ res.outcome = "ok" =>
              /\ res.normalized
              /\ res.new_index \in 1..Len(suite)
              /\ res.recorded.expectation_type = InternalName(res.op, res.path)
              /\ res.recorded.kwargs.column = res.args.column
              /\ res.recorded.kwargs.type_ = res.args.type_
              /\ res.recorded.kwargs.type_list = res.args.type_list
              /\ res.recorded.kwargs.row_condition = res.args.row_condition
              /\ res.recorded.kwargs.condition_parser = res.args.condition_parser
              /\ res.recorded.meta = res.args.meta
              /\ CountEntries(InternalName(res.op, res.path), res.args.column) = 0

\* the first call on a suite whose first entry was the public entry of the
\* same kind and column: it is removed, and the internal entry appended
\* behind the three entries is found at position 3
C26_Witness ==
    /\ ~active_validation
    /\ ncalls = 1
    /\ res.op = "expect_column_values_to_be_of_type"
    /\ res.args.column = "B"
    /\ res.outcome = "ok"
    /\ res.new_index = 3
    /\ Len(suite) = 3
    /\ suite[1].expectation_type = "expect_column_values_to_be_unique"
    /\ suite[3].expectation_type = "expect_column_values_to_be_of_type"

(***************************************************************************)
(* A routed function that raises (checked under Spec).                     *)
(***************************************************************************)
\* C27: a type-routed call whose routed function raises leaves the suite
\* exactly as it was and runs no normalization step (so the public entry of
\* that column stays and no internal entry appears); and the type-routed
\* call that follows a raised one, when it returns outside a validation,
\* ends with exactly one entry of its public kind and column and none under
\* its internal name.
C27_RaiseLeavesSuite ==
    [][/\ (res'.op \in PublicNames /\ res'.outcome # "ok") =>
             /\ res'.outcome \in {"ValueError", "TypeError"}
             /\ suite' = suite
             /\ ~res'.normalized
             /\ res'.new_index = 0
             /\ evaluated' = evaluated
       /\ (/\ res.op \in PublicNames
           /\ res.outcome # "ok"
           /\ res'.outcome = "ok"
           /\ ~active_validation) =>
             /\ Cardinality({i \in 1..Len(suite') :
                    /\ suite'[i].expectation_type = res'.op
                    /\ suite'[i].kwargs.column = res'.args.column}) = 1
             /\ \A i \in 1..Len(suite') :
                    suite'[i].expectation_type \notin InternalNames]_vars

\* an unrecognized type name on the map path, raised on the suite whose
\* first entry is the public entry of that kind and column: the entry is
\* still there, and so are the two behind it
C27_Witness ==
    /\ ~active_validation
    /\ res.op = "expect_column_values_to_be_of_type"
    /\ res.path = "map"
    /\ res.args.column = "B"
    /\ res.args.type_ = Some("bogus")
    /\ res.outcome = "ValueError"
    /\ Len(suite) = 3
    /\ suite[1] = PublicEntry("expect_column_values_to_be_of_type", "B", Some("old"))

(***************************************************************************)
(* The sample bound across the evaluations of a session (checked under     *)
(* SessionSpec, where the caller's dictionary starts with no bound or with *)
(* the bound 1).                                                           *)
(***************************************************************************)
\* C28: whatever was evaluated before, a values-unique evaluation that
\* returns works with the configured sample bound (the default 20, or the 1
\* the caller's dictionary named) and not with 0: at SUMMARY and COMPLETE
\* its partial unexpected list holds min(unexpected_count, bound) values, so
\* at least one when a value is unexpected.
C28_SampleBoundKept ==
    (/\ res.op = "expect_column_values_to_be_unique"
     /\ res.outcome = "ok"
     /\ DetailLevel \in {"SUMMARY", "COMPLETE"}) =>
        LET bound == res.locals.result_format.partial_unexpected_count
            full == res.locals.unexpected_list
        IN  /\ bound \in {DefaultPartialUnexpectedCount, 1}
            /\ Len(res.ret.partial_unexpected_list) =
                   (IF Len(full) < bound THEN Len(full) ELSE bound)
            /\ Len(full) > 0 => Len(res.ret.partial_unexpected_list) > 0

(***************************************************************************)
(* A one-element type list against the single type (checked under Spec).   *)
(***************************************************************************)
\* C29: expect_column_values_to_be_in_type_list called with a list of one
\* type name t takes the path expect_column_values_to_be_of_type takes for
\* t on the same column with the same keyword arguments, ends the same way,
\* returns the same success, and resolves t to the same concrete types.
C29_SingletonListAgrees ==
    (/\ res.op = "expect_column_values_to_be_in_type_list"
     /\ ~IsNone(res.args.type_list)
     /\ Len(Val(res.args.type_list)) = 1) =>
        LET t == Val(res.args.type_list)[1]
            o == [mostly |-> res.args.mostly, meta |-> res.args.meta,
                  row_condition |-> res.args.row_condition,
                  condition_parser |-> res.args.condition_parser]
            path == route_of_type(dataframe, res.args.column, Some(t))
            single == of_type_routed(path, res.args.column, Some(t), o)
        IN  /\ res.path = path
            /\ res.outcome = single.outcome
            /\ res.outcome = "ok" => (res.ret.success <=> single.ret.success)
            /\ comp_types_of_list(<<t>>) = comp_types_of(t)

(***************************************************************************)
(* get_column_value_counts (checked under ElementSpec).                    *)
(***************************************************************************)
\* the values of the column the last metric call read
MetricValues == SeriesValues(Series(dataframe, res.args.column))

\* the position at which x first stands in s
FirstAt(s, x) == CHOOSE i \in 1..Len(s) : s[i] = x /\ \A j \in 1..(i - 1) : s[j] # x

\* the key a value is ordered by: an integer by itself, a string by its text
ValueKey(x) == IF x.ty = "int" THEN x.v ELSE text_rank(text(x))

RECURSIVE SumCounts(_)
SumCounts(counts) ==
    IF counts = << >> THEN 0 ELSE Head(counts).count + SumCounts(Tail(counts))

\* C30: get_column_value_counts raises ValueError exactly when sort is not
\* one of 'value', 'count', 'none' or collate is not None.  Otherwise it
\* returns counts that sum to the number of non-null values of the column:
\* for 'value' in ascending order of the values; for 'count' with the counts
\* never increasing; for 'none' as value_counts() gives them, one entry per
\* distinct value with its number of occurrences, the more frequent first
\* and equally frequent values in order of first appearance.
C30_ValueCounts ==
    res.op = "get_column_value_counts" =>
        LET sort == res.args.kwargs.sort
            counts == res.ret.metric
            nonnull == SelectSeq(MetricValues, LAMBDA x : ~isnull(x))
        IN  /\ res.outcome \in {"ok", "ValueError"}
            /\ res.outcome = "ValueError" <=>
                  (sort \notin {"value", "count", "none"} \/ ~IsNone(res.args.kwargs.collate))
            /\ res.outcome = "ok" =>
                  /\ SumCounts(counts) = Len(nonnull)
                  /\ \A i \in 1..Len(counts) : counts[i].count > 0
                  /\ sort = "value" =>
                        \A i, j \in 1..Len(counts) :
                           i < j => ValueKey(counts[i].value) <= ValueKey(counts[j].value)
                  /\ sort = "count" =>
                        \A i, j \in 1..Len(counts) :
                           i < j => counts[i].count >= counts[j].count
                  /\ sort = "none" =>
                        /\ {counts[i].value : i \in 1..Len(counts)} = Range(nonnull)
                        /\ \A i \in 1..Len(counts) :
                              counts[i].count = Occurrences(nonnull, counts[i].value)
                        /\ \A i, j \in 1..Len(counts) :
                              i < j =>
                                 \/ counts[i].count > counts[j].count
                                 \/ /\ counts[i].count = counts[j].count
                                    /\ FirstAt(nonnull, counts[i].value)
                                           < FirstAt(nonnull, counts[j].value)

\* sort 'value' on the column 1, 2, 2, where value_counts() has 2 in front:
\* the value 1, which occurs once, comes first
C30_Witness ==
    /\ res.op = "get_column_value_counts"
    /\ res.outcome = "ok"
    /\ res.args.column = "A"
    /\ MetricValues = <<Int1, Int2, Int2>>
    /\ res.args.kwargs.sort = "value"
    /\ res.ret.metric = <<[value |-> Int1, count |-> 1], [value |-> Int2, count |-> 2]>>

====
